---- MODULE Spec2Model ----
(***************************************************************************)
(* Waya-Quote: the quotation generation pipeline of                        *)
(* services/geminiService.ts (generateQuotation, generateTravelImage) and  *)
(* the handleGenerate handler of App.tsx that drives it.                   *)
(*                                                                         *)
(* Strings are modelled as sequences of tokens (<<>> is the empty string). *)
(***************************************************************************)
EXTENDS Integers, Sequences, FiniteSets, TLC

(***************************************************************************)
(* Bounds of the model.                                                    *)
(***************************************************************************)
\* largest number of hotels, restaurants and itinerary days together in one
\* parsed Quotation, and of each kind
MaxItems == 3
MaxHotels == 3
MaxRestaurants == 1
MaxDays == 1
\* properties of the object in a response text given to the normalizer alone
MaxMembers == 2
\* items of each list of the Quotation given to the renderer alone
MaxPreviewItems == 2
\* parts of the response given to the image helper alone
MaxParts == 3
\* generateQuotation invocations in one behaviour, overlapping or not
MaxRequests == 2
\* file selections in one behaviour, and files in one selection
MaxBatches == 2
MaxBatchFiles == 2

(***************************************************************************)
(* Program constants.                                                      *)
(***************************************************************************)
\* a retry loop that runs once more
maxRetriesFour == 3 + 1
maxRetries == 3
BaseDelayMs == 1000
FirstUngroundedAttempt == 2

(***************************************************************************)
(* Strings.                                                                *)
(***************************************************************************)
EmptyString == <<>>

\* String.prototype.toLowerCase, token by token
LowerTok(t) ==
  CASE t = "Quota" -> "quota"
    [] t = "RESOURCE_EXHAUSTED" -> "resource_exhausted"
    [] t = "Internal" -> "internal"
    [] t = "INTERNAL" -> "internal"
    [] t = "Error" -> "error"
    [] t = "ApiError" -> "apierror"
    [] t = "Bad" -> "bad"
    [] t = "Server" -> "server"
    [] t = ".JPG" -> ".jpg"
    [] t = ".Png" -> ".png"
    [] t = ".HTML" -> ".html"
    [] t = "HTTP" -> "http"
    [] t = "DATA:" -> "data:"
    [] OTHER -> t

toLowerCase(s) == [i \in 1..Len(s) |-> LowerTok(s[i])]

\* String.prototype.includes
includes(s, needle) ==
  \E i \in 0..(Len(s) - Len(needle)) :
     \A j \in 1..Len(needle) : s[i + j] = needle[j]

startsWith(s, prefix) ==
  /\ Len(s) >= Len(prefix)
  /\ \A j \in 1..Len(prefix) : s[j] = prefix[j]

(***************************************************************************)
(* Errors: what the backend SDK rejects with, and what the code throws.    *)
(* status 0 and code "" stand for an absent property.                      *)
(***************************************************************************)
MkError(name, status, code, message) ==
  [name |-> name, status |-> status, code |-> code, message |-> message]

NoError == MkError("", 0, "", EmptyString)

\* Error.prototype.toString: "<name>: <message>"
toString(e) == <<e.name, ": ">> \o e.message

E429 == MkError("ApiError", 429, "", <<"RESOURCE_EXHAUSTED">>)
EQuotaMsg == MkError("Error", 0, "", <<"Quota", " ", "exceeded">>)
E500 == MkError("ApiError", 500, "", <<"Server", " ", "down">>)
E503 == MkError("ApiError", 503, "", <<"Server", " ", "unavailable">>)
ECodeInternal == MkError("ApiError", 0, "INTERNAL", <<"rpc", " ", "failed">>)
EMsgInternal == MkError("Error", 0, "", <<"Internal", " ", "error", " ", "encountered">>)
E500Quota == MkError("ApiError", 500, "", <<"Internal", " ", "error", ": ", "quota", " ", "exhausted">>)
E400 == MkError("ApiError", 400, "", <<"Bad", " ", "request">>)
E401 == MkError("ApiError", 401, "", <<"API", " ", "key", " ", "not", " ", "valid">>)

\* errors thrown by generateQuotation itself
ApiKeyMissingError == MkError("Error", 0, "", <<"API Key is missing">>)
PreconditionError ==
  MkError("Error", 0, "", <<"Please provide text details or upload a file.">>)
QuotaExceededError ==
  MkError("Error", 0, "", <<"AI Text Generation Quota Exceeded. Please try again later.">>)
GenericFailureError ==
  MkError("Error", 0, "", <<"Failed to generate response from AI after multiple attempts.">>)
InvalidFormatError ==
  MkError("Error", 0, "", <<"AI generated an invalid format. Please try again.">>)

\* the errors a text-completion call fails with in the model
TextErrors == {E429, E500Quota, E500, EMsgInternal, E400}
\* the errors an image-synthesis call fails with in the model
ImageErrors == {E429, E500}

isQuotaError(e) ==
  LET msg == toLowerCase(toString(e))
  IN \/ includes(msg, <<"429">>)
     \/ includes(msg, <<"resource_exhausted">>)
     \/ includes(msg, <<"quota">>)
     \/ e.status = 429

\* a check that looks at the status alone
isInternalErrorStatusOnly(e) ==
  LET useStatus == e.status # 0
  IN \/ (useStatus /\ e.status \in {500, 503})
     \/ (~useStatus /\ e.code = "INTERNAL")

isInternalError(e) ==
  LET useStatus == e.status # 0
      msg == IF e.message # EmptyString THEN e.message ELSE toString(e)
  IN \/ (useStatus /\ e.status \in {500, 503})
     \/ (~useStatus /\ e.code = "INTERNAL")
     \/ includes(msg, <<"Internal", " ", "error">>)

(***************************************************************************)
(* Optional values (string | null, TravelQuotation | null).                *)
(***************************************************************************)
Some(v) == [isNull |-> FALSE, value |-> v]
Null(default) == [isNull |-> TRUE, value |-> default]

(***************************************************************************)
(* Image references and the Quotation (types.ts: TravelQuotation).         *)
(***************************************************************************)
Digits == <<"1", "2", "3", "4", "5", "6", "7", "8", "9">>

PageUrl == <<"http", "s://x.com/", "page", ".html">>
JpgUrl == <<"http", "s://x.com/", "img", ".jpg">>
ModelDataUri == <<"data:", "image/png;base64,", "AAAA">>

\* the data URI generateTravelImage builds from the inline image part the
\* backend renders for the prompt of slot (kind, idx)
InlineData(kind, idx) == <<kind, IF idx = 0 THEN "0" ELSE Digits[idx]>>
DataUri(data) == <<"data:", "image/png;base64,">> \o data

\* url.split('?')[0]: the tokens before the first "?"
SplitQuery(url) ==
  LET qs == {i \in 1..Len(url) : url[i] = "?"}
  IN IF qs = {} THEN url
     ELSE SubSeq(url, 1, (CHOOSE i \in qs : \A j \in qs : i <= j) - 1)

ImageExtensions == {".jpeg", ".jpg", ".gif", ".png", ".webp"}

\* /\.(jpeg|jpg|gif|png|webp)$/i.test(s)
TestImageExtension(s) ==
  s # <<>> /\ LowerTok(s[Len(s)]) \in ImageExtensions

\* an extension test on the whole url, query string included
isDirectImageWithQuery(url) ==
  IF url = EmptyString THEN FALSE
  ELSE IF startsWith(url, <<"data:">>) THEN TRUE
  ELSE startsWith(url, <<"http">>) /\ TestImageExtension(url)

\* const isDirectImage = (url: string) => ...
isDirectImage(url) ==
  IF url = EmptyString THEN FALSE
  ELSE IF startsWith(url, <<"data:">>) THEN TRUE
  ELSE startsWith(url, <<"http">>) /\ TestImageExtension(SplitQuery(url))

\* image references the text model puts into a list item
ModelRefs == {PageUrl, JpgUrl}
\* values of heroImage in the text model's output (EmptyString: absent)
HeroRefs == {EmptyString, PageUrl, ModelDataUri}

Item(idx, image) == [name |-> Digits[idx], image |-> image]

EmptyQuotation ==
  [destination |-> EmptyString, heroImage |-> EmptyString, flights |-> <<>>,
   hotels |-> <<>>, restaurants |-> <<>>, itinerary |-> <<>>,
   travelTips |-> <<>>]

\* the object the text model describes: nh hotels, nr restaurants, nd days,
\* every list image empty except that of slot sp = <<kind, idx>>, which is ref
MkQuotation(nf, nh, nr, nd, hero, sp, ref) ==
  LET img(kind, i) == IF sp = <<kind, i>> THEN ref ELSE EmptyString
  IN [destination |-> <<"Bali">>,
      heroImage |-> hero,
      flights |-> [i \in 1..nf |-> Digits[i]],
      hotels |-> [i \in 1..nh |-> Item(i, img("hotel", i))],
      restaurants |-> [i \in 1..nr |-> Item(i, img("restaurant", i))],
      itinerary |-> [i \in 1..nd |-> Item(i, img("day", i))],
      travelTips |-> <<>>]

Shapes ==
  {s \in (0..MaxHotels) \X (0..MaxRestaurants) \X (0..MaxDays) :
      s[1] + s[2] + s[3] <= MaxItems}

SlotsOfShape(s) ==
  {<<"hotel", i>> : i \in 1..s[1]} \cup {<<"restaurant", i>> : i \in 1..s[2]}
     \cup {<<"day", i>> : i \in 1..s[3]}

\* the Quotations the text model describes in the model
ModelQuotations ==
  UNION {
    {MkQuotation(0, s[1], s[2], s[3], hero, <<"none", 0>>, EmptyString) :
        hero \in HeroRefs}
    \cup {MkQuotation(0, s[1], s[2], s[3], EmptyString, sp, ref) :
            sp \in SlotsOfShape(s), ref \in ModelRefs}
    : s \in Shapes}

(***************************************************************************)
(* Response Normalizer (geminiService.ts: generateQuotation, parse step).  *)
(* The response text is a sequence of tokens; "BODY" stands for the        *)
(* properties of the Quotation object before travelTips, a bracketed list  *)
(* for the travelTips array.                                               *)
(***************************************************************************)
Whitespace == {" ", "\n"}
FenceTokens == {"FENCE", "FENCEjson"}
TipTokens == {"\"Pack light\"", "\"Carry cash\""}

RECURSIVE TrimLeft(_)
TrimLeft(s) ==
  IF s # <<>> /\ Head(s) \in Whitespace THEN TrimLeft(Tail(s)) ELSE s

RECURSIVE TrimRight(_)
TrimRight(s) ==
  IF s # <<>> /\ s[Len(s)] \in Whitespace
    THEN TrimRight(SubSeq(s, 1, Len(s) - 1)) ELSE s

\* String.prototype.trim
trim(s) == TrimRight(TrimLeft(s))

\* the first capture group of the code-fence match (the pattern tagged json
\* first, then the untagged one), when there is one; "FENCE" is the token of
\* three backticks, "FENCEjson" that of three backticks followed by json
codeBlockMatch(s) ==
  LET closes(i) == {j \in (i + 1)..Len(s) : s[j] \in FenceTokens}
      opensJson == {i \in 1..Len(s) : s[i] = "FENCEjson" /\ closes(i) # {}}
      opensAny == {i \in 1..Len(s) : s[i] \in FenceTokens /\ closes(i) # {}}
      Min(S) == CHOOSE x \in S : \A y \in S : x <= y
      group(i) == SubSeq(s, i + 1, Min(closes(i)) - 1)
  IN IF opensJson # {} THEN Some(group(Min(opensJson)))
     ELSE IF opensAny # {} THEN Some(group(Min(opensAny)))
     ELSE Null(<<>>)

stripFence(s) ==
  LET m == codeBlockMatch(s)
  IN IF m.isNull THEN s ELSE trim(m.value)

\* cleanText.match(/\]\s*\}$/)
EndsBracketBrace(s) ==
  LET body == TrimRight(SubSeq(s, 1, Len(s) - 1))
  IN /\ s # <<>> /\ s[Len(s)] = "}"
     /\ body # <<>> /\ body[Len(body)] = "]"

\* a repair that puts the bracket after the closing brace
repairAfterBrace(s) ==
  IF s # <<>> /\ s[Len(s)] = "}" /\ ~EndsBracketBrace(s)
    THEN s \o <<"]">>
    ELSE s

repair(s) ==
  IF s # <<>> /\ s[Len(s)] = "}" /\ ~EndsBracketBrace(s)
    THEN SubSeq(s, 1, Len(s) - 1) \o <<"]", " ", "}">>
    ELSE s

normalize(text) == repair(stripFence(trim(text)))

RECURSIVE StripWs(_)
StripWs(s) ==
  IF s = <<>> THEN <<>>
  ELSE IF Head(s) \in Whitespace THEN StripWs(Tail(s))
  ELSE <<Head(s)>> \o StripWs(Tail(s))

\* JSON.parse on the tokens: st is the parser's position in the grammar
\*   object  ::= "{" member ("," member)* "}"
\*   member  ::= "BODY" | "[" (tip ("," tip)*)? "]" | "\"" char* "\""
\* the result is the tips of the last array member, or failure
RECURSIVE ParseFrom(_, _, _)
ParseFrom(s, st, tips) ==
  IF s = <<>> THEN [ok |-> st = "end", tips |-> tips]
  ELSE
    LET t == Head(s)
        rest == Tail(s)
        fail == [ok |-> FALSE, tips |-> <<>>]
    IN CASE st = "start" ->
              IF t = "{" THEN ParseFrom(rest, "member", tips) ELSE fail
         [] st = "member" ->
              IF t = "BODY" THEN ParseFrom(rest, "afterMember", tips)
              ELSE IF t = "[" THEN ParseFrom(rest, "arrayStart", <<>>)
              ELSE IF t = "\"" THEN ParseFrom(rest, "inString", tips)
              ELSE fail
         [] st = "inString" ->
              IF t = "\"" THEN ParseFrom(rest, "afterMember", tips)
              ELSE ParseFrom(rest, "inString", tips)
         [] st = "afterMember" ->
              IF t = "," THEN ParseFrom(rest, "member", tips)
              ELSE IF t = "}" THEN ParseFrom(rest, "end", tips)
              ELSE fail
         [] st = "arrayStart" ->
              IF t \in TipTokens
                THEN ParseFrom(rest, "afterTip", Append(tips, t))
              ELSE IF t = "]" THEN ParseFrom(rest, "afterMember", tips)
              ELSE fail
         [] st = "tip" ->
              IF t \in TipTokens
                THEN ParseFrom(rest, "afterTip", Append(tips, t))
              ELSE fail
         [] st = "afterTip" ->
              IF t = "," THEN ParseFrom(rest, "tip", tips)
              ELSE IF t = "]" THEN ParseFrom(rest, "afterMember", tips)
              ELSE fail
         [] OTHER -> fail

\* JSON.parse(cleanText) as TravelQuotation, body being the object "BODY"
\* stands for
JSONParse(text, body) ==
  LET r == ParseFrom(StripWs(text), "start", <<>>)
  IN IF r.ok THEN Some([body EXCEPT !.travelTips = r.tips])
     ELSE Null(EmptyQuotation)

GoodText == <<"{", "BODY", ",", "[", "\"Pack light\"", "]", "}">>
FencedText == <<"FENCEjson", "\n">> \o GoodText \o <<"\n", "FENCE">>
TruncatedText == <<"{", "BODY", ",", "[", "\"Pack light\"", "}">>
GarbageText == <<"Sorry", ",", "{">>
\* a complete object whose last property is not an array
ScalarLastText == <<"{", "[", "\"Pack light\"", "]", ",", "BODY", "}">>

\* the texts a text-completion response carries in the model
ResponseTexts ==
  {EmptyString, GoodText, FencedText, TruncatedText, GarbageText,
   ScalarLastText}

(***************************************************************************)
(* Model Gateway: the backend's answers.                                   *)
(***************************************************************************)
\* a text-completion response: its text, and the object "BODY" stands for
TextResponses ==
  {[text |-> t, body |-> q] : t \in ResponseTexts, q \in ModelQuotations}

TextPart == [inline |-> FALSE, data |-> <<>>]
InlinePart(data) == [inline |-> TRUE, data |-> data]

\* the parts of an image-synthesis response for slot (kind, idx)
ImageResponses(kind, idx) ==
  {<<>>, <<TextPart>>, <<TextPart, InlinePart(InlineData(kind, idx))>>}

(***************************************************************************)
(* State.                                                                  *)
(***************************************************************************)
VARIABLES
  apiKey,         \* process.env.API_KEY is set
  inputText,      \* App state: the notes typed by the user
  files,          \* App state: the uploaded attachments
  error,          \* App state: string | null
  loading,        \* App state
  quotation,      \* App state: TravelQuotation | null
  driver,         \* who calls generateQuotation: the App ("app") or another
                  \* caller of the exported function ("direct")
  pc,             \* where the generateQuotation call is suspended
  args,           \* generateQuotation: textInput and files
  attempt,        \* generateQuotation: loop counter
  lastError,      \* generateQuotation: lastError (NoError: undefined)
  response,       \* generateQuotation: "undefined", "text" or "empty"
  sleeping,       \* milliseconds of the sleep in progress
  textCalls,      \* the text-completion calls issued, in order
  sleeps,         \* the backoff sleeps that have elapsed, in order
  parsed,         \* the Quotation as JSON.parse returned it
  quotationData,  \* generateQuotation: quotationData
  imageTasks,     \* generateQuotation: imageTasks, in push order
  thrown,         \* the error generateQuotation rejected with
  returned,       \* the Quotation generateQuotation resolved with
  responseText,   \* normalizer alone: response.text
  cleanText,      \* normalizer alone: cleanText
  urlArg,         \* isDirectImage alone: its argument url
  isValid,        \* isDirectImage alone: its result (null before the call)
  template,       \* QuotationPreview alone: what it rendered (null before)
  imageCall,      \* generateTravelImage alone: how the backend call settles
  imageUrl,       \* generateTravelImage alone: its result (null before)
  caught,         \* catch block alone: the error e
  classified,     \* catch block alone: what it does with e (null before)
  frames          \* concurrent callers: the locals of each invocation

uiVars == <<inputText, files, error, loading, quotation>>
callVars == <<attempt, lastError, response, sleeping, textCalls, sleeps>>
textVars == <<args, callVars>>
imageVars == <<parsed, quotationData, imageTasks>>
morePureVars == <<template, imageCall, imageUrl, caught, classified, frames>>
pureVars == <<responseText, cleanText, urlArg, isValid, morePureVars>>
vars ==
  <<apiKey, uiVars, driver, pc, textVars, imageVars, thrown, returned,
    pureVars>>

TextInputs == {EmptyString, <<"5 nights in Bali">>}
NoArgs == [textInput |-> EmptyString, files |-> <<>>]
FileLists == {<<>>, <<"notes.pdf">>}
\* the arguments generateQuotation is called with by a caller other than
\* the App: neither text nor files, text alone, a file alone
CallInputs ==
  {in \in TextInputs \X FileLists : in[1] = EmptyString \/ in[2] = <<>>}

UiPreconditionMessage == <<"Please add some itinerary details or upload a file.">>
UiFallbackMessage == <<"Failed to generate quotation. Please try again.">>

\* the variables of the parts checked alone, when those parts are not run
MorePureIdle ==
  /\ template = Null("")
  /\ imageCall = [kind |-> "none"]
  /\ imageUrl = Null(EmptyString)
  /\ caught = NoError
  /\ classified = Null("")
  /\ frames = <<>>

Init ==
  /\ apiKey \in BOOLEAN
  /\ driver \in {"app", "direct"}
  /\ inputText \in IF driver = "app" THEN TextInputs ELSE {EmptyString}
  /\ files = <<>>
  /\ error = Null(EmptyString)
  /\ loading = FALSE
  /\ quotation = Null(EmptyQuotation)
  /\ pc = "idle"
  /\ args = NoArgs
  /\ attempt = 0
  /\ lastError = NoError
  /\ response = "undefined"
  /\ sleeping = 0
  /\ textCalls = <<>>
  /\ sleeps = <<>>
  /\ parsed = Null(EmptyQuotation)
  /\ quotationData = Null(EmptyQuotation)
  /\ imageTasks = <<>>
  /\ thrown = NoError
  /\ returned = Null(EmptyQuotation)
  /\ responseText = EmptyString
  /\ cleanText = EmptyString
  /\ urlArg = EmptyString
  /\ isValid = Null(FALSE)
  /\ MorePureIdle

(***************************************************************************)
(* generateQuotation: the text phase.                                      *)
(***************************************************************************)
\* the promise rejects with e
Throw(e) ==
  /\ pc' = "failed"
  /\ thrown' = e

\* the text part pushed without looking at textInput
PartsLengthAlwaysText(textInput, fileList) == 1 + Len(fileList)

\* parts.length after the text and the files have been pushed
PartsLength(textInput, fileList) ==
  (IF textInput # EmptyString THEN 1 ELSE 0) + Len(fileList)

\* a fallback that never switches the tools off
useToolsAlways(a) == a < maxRetries

\* const useTools = attempt < 2
useTools(a) == a < FirstUngroundedAttempt

\* a backoff that starts one attempt late
NeedsSleepAfterSecond(a) == a > 1

\* if (attempt > 0) await sleep(1000 * attempt)
NeedsSleep(a) == a > 0

\* a backoff of the base delay whatever the attempt
BackoffMsFlat(a) == BaseDelayMs

\* sleep(1000 * attempt)
BackoffMs(a) == BaseDelayMs * a

\* await ai.models.generateContent(...) of the loop body
IssueTextCall(a) ==
  /\ textCalls' = Append(textCalls,
        [useTools |-> useTools(a), state |-> "pending"])
  /\ pc' = "textCall"

\* a call that looks at its inputs before it looks for the API key
StartRequestInputsFirst(textInput, fileList) ==
  /\ args' = [textInput |-> textInput, files |-> fileList]
  /\ IF PartsLength(textInput, fileList) = 0
       THEN /\ Throw(PreconditionError)
            /\ UNCHANGED <<callVars, imageVars, returned>>
       ELSE IF ~apiKey
       THEN /\ Throw(ApiKeyMissingError)
            /\ UNCHANGED <<callVars, imageVars, returned>>
       ELSE /\ attempt' = 0
            /\ IssueTextCall(0)
            /\ UNCHANGED <<lastError, response, sleeping, sleeps, imageVars,
                           thrown, returned>>

\* the call up to its first await: credential and precondition checks, then
\* the first iteration of the retry loop
StartRequest(textInput, fileList) ==
  /\ args' = [textInput |-> textInput, files |-> fileList]
  /\ IF ~apiKey
       THEN /\ Throw(ApiKeyMissingError)
            /\ UNCHANGED <<callVars, imageVars, returned>>
       ELSE IF PartsLength(textInput, fileList) = 0
       THEN /\ Throw(PreconditionError)
            /\ UNCHANGED <<callVars, imageVars, returned>>
       ELSE /\ attempt' = 0
            /\ IssueTextCall(0)
            /\ UNCHANGED <<lastError, response, sleeping, sleeps, imageVars,
                           thrown, returned>>

\* generateQuotation called by another caller than the App
GenerateQuotation(textInput, fileList) ==
  /\ driver = "direct"
  /\ pc = "idle"
  /\ StartRequest(textInput, fileList)
  /\ UNCHANGED <<pureVars, apiKey, driver, uiVars>>

\* a catch block that looks for an internal error first
ClassifyInternalFirst(e) ==
  IF isInternalError(e) THEN "continue"
  ELSE IF isQuotaError(e) THEN "quota"
  ELSE "throw"

\* a catch block that retries whatever is not a quota error
ClassifyRetryAll(e) ==
  IF isQuotaError(e) THEN "quota" ELSE "continue"

\* what the catch block of the retry loop does with e
Classify(e) ==
  IF isQuotaError(e) THEN "quota"
  ELSE IF isInternalError(e) THEN "continue"
  ELSE "throw"

\* a final check that always raises the generic error
NoTextErrorGeneric(err) == GenericFailureError

\* if (!response?.text) throw lastError || new Error("Failed to ...")
NoTextError(err) == IF err # NoError THEN err ELSE GenericFailureError

MarkLast(calls, st) ==
  [calls EXCEPT ![Len(calls)] = [@ EXCEPT !.state = st]]

\* the pending text-completion call rejects with e: the catch block, and
\* what follows it up to the next await
TextCallFails(e) ==
  /\ pc = "textCall"
  /\ lastError' = e
  /\ CASE Classify(e) = "quota" ->
            /\ Throw(QuotaExceededError)
            /\ textCalls' = MarkLast(textCalls, "failed")
            /\ UNCHANGED <<attempt, sleeping>>
       [] Classify(e) = "continue" ->
            /\ attempt' = attempt + 1
            /\ IF attempt + 1 >= maxRetries
                 THEN \* the loop ends without a response
                      /\ Throw(NoTextError(e))
                      /\ textCalls' = MarkLast(textCalls, "failed")
                      /\ UNCHANGED sleeping
                 ELSE IF NeedsSleep(attempt + 1)
                 THEN /\ sleeping' = BackoffMs(attempt + 1)
                      /\ pc' = "sleep"
                      /\ textCalls' = MarkLast(textCalls, "failed")
                      /\ UNCHANGED thrown
                 ELSE /\ textCalls' = Append(MarkLast(textCalls, "failed"),
                            [useTools |-> useTools(attempt + 1),
                             state |-> "pending"])
                      /\ pc' = "textCall"
                      /\ UNCHANGED <<sleeping, thrown>>
       [] OTHER ->
            /\ Throw(e)
            /\ textCalls' = MarkLast(textCalls, "failed")
            /\ UNCHANGED <<attempt, sleeping>>
  /\ UNCHANGED <<pureVars, apiKey, uiVars, driver, args, response, sleeps, imageVars,
                 returned>>

\* the backoff timer fires: the next text-completion call is issued
SleepElapses ==
  /\ pc = "sleep"
  /\ sleeps' = Append(sleeps, sleeping)
  /\ sleeping' = 0
  /\ IssueTextCall(attempt)
  /\ UNCHANGED <<pureVars, apiKey, uiVars, driver, args, attempt, lastError, response,
                 imageVars, thrown, returned>>

(***************************************************************************)
(* generateQuotation: the enrichment phase.                                *)
(***************************************************************************)
\* a subtask that is queued without its image call being issued
TaskNotLaunched(kind, idx) ==
  [kind |-> kind, idx |-> idx, state |-> "queued", result |-> "none"]

\* imageTasks.push(generateTravelImage(...).then(...).catch(...)): the
\* helper runs up to its backend call when the task is pushed
Task(kind, idx) ==
  [kind |-> kind, idx |-> idx,
   state |-> IF apiKey THEN "pending" ELSE "fulfilled",
   result |-> IF apiKey THEN "none" ELSE "empty"]

\* a clearing that replaces each item by an empty one
ClearImagesResetItems(items) ==
  [i \in 1..Len(items) |-> [name |-> "", image |-> EmptyString]]

ClearImages(items) == [i \in 1..Len(items) |-> [items[i] EXCEPT !.image = EmptyString]]

\* an enrichment that clears a hotel or restaurant image only when it is not
\* a direct image
ClearedQuotationGated(q) ==
  LET gate(items) ==
        [i \in 1..Len(items) |->
           IF isDirectImage(items[i].image) THEN items[i]
           ELSE [items[i] EXCEPT !.image = EmptyString]]
  IN [q EXCEPT !.hotels = gate(q.hotels),
               !.restaurants = gate(q.restaurants)]

\* quotationData when the synchronous part of the enrichment is over: the
\* hotel and restaurant images are cleared, heroImage and the itinerary
\* images are left as parsed
ClearedQuotation(q) ==
  [q EXCEPT !.hotels = ClearImages(q.hotels),
            !.restaurants = ClearImages(q.restaurants)]

\* a hero task that is skipped when heroImage is already a data URI
EnqueuedTasksHeroGated(q) ==
  (IF startsWith(q.heroImage, <<"data:">>) THEN <<>> ELSE <<Task("hero", 0)>>)
    \o [i \in 1..Len(q.hotels) |-> Task("hotel", i)]
    \o [i \in 1..Len(q.restaurants) |-> Task("restaurant", i)]
    \o [i \in 1..Len(q.itinerary) |-> Task("day", i)]

\* imageTasks when the synchronous part of the enrichment is over: one task
\* for the hero, then one per hotel, per restaurant and per itinerary day
EnqueuedTasks(q) ==
  <<Task("hero", 0)>>
    \o [i \in 1..Len(q.hotels) |-> Task("hotel", i)]
    \o [i \in 1..Len(q.restaurants) |-> Task("restaurant", i)]
    \o [i \in 1..Len(q.itinerary) |-> Task("day", i)]

\* what JSON.parse throws
SyntaxError == MkError("SyntaxError", 0, "", <<"Unexpected token">>)

\* a catch block that rethrows what JSON.parse threw
ParseErrorRethrown(cause) == cause

\* catch (e) { throw new Error("AI generated an invalid format. ...") }
ParseError(cause) == InvalidFormatError

\* a final check that takes every response for one with text
HasTextUnchecked(resp) == TRUE

\* response?.text is truthy
HasText(resp) == resp.text # EmptyString

\* a text phase that starts the hero image call before it parses the text
TextCallReturnsHeroFirst(resp) ==
  /\ pc = "textCall"
  /\ textCalls' = MarkLast(textCalls, "returned")
  /\ response' = IF resp.text # EmptyString THEN "text" ELSE "empty"
  /\ IF ~HasText(resp)
       THEN /\ Throw(NoTextError(lastError))
            /\ UNCHANGED <<imageVars>>
       ELSE LET q == JSONParse(normalize(resp.text), resp.body)
            IN IF q.isNull
                 THEN /\ Throw(ParseError(SyntaxError))
                      /\ imageTasks' = <<Task("hero", 0)>>
                      /\ UNCHANGED <<parsed, quotationData>>
                 ELSE /\ parsed' = q
                      /\ quotationData' = Some(ClearedQuotation(q.value))
                      /\ imageTasks' = EnqueuedTasks(q.value)
                      /\ pc' = "enrich"
                      /\ UNCHANGED thrown
  /\ UNCHANGED <<pureVars, apiKey, uiVars, driver, args, attempt, lastError,
                 sleeping, sleeps, returned>>

\* the text-completion call resolves with resp: the loop is left, the text
\* is normalized and parsed, the image tasks are started and joined
TextCallReturns(resp) ==
  /\ pc = "textCall"
  /\ textCalls' = MarkLast(textCalls, "returned")
  /\ response' = IF resp.text # EmptyString THEN "text" ELSE "empty"
  /\ IF ~HasText(resp)
       THEN /\ Throw(NoTextError(lastError))
            /\ UNCHANGED <<imageVars>>
       ELSE LET q == JSONParse(normalize(resp.text), resp.body)
            IN IF q.isNull
                 THEN /\ Throw(ParseError(SyntaxError))
                      /\ UNCHANGED <<imageVars>>
                 ELSE /\ parsed' = q
                      /\ quotationData' = Some(ClearedQuotation(q.value))
                      /\ imageTasks' = EnqueuedTasks(q.value)
                      /\ pc' = "enrich"
                      /\ UNCHANGED thrown
  /\ UNCHANGED <<pureVars, apiKey, uiVars, driver, args, attempt, lastError, sleeping,
                 sleeps, returned>>

\* a helper that keeps the last inline image part
LastInline(content) ==
  LET idxs == {i \in 1..Len(content) : content[i].inline /\ content[i].data # <<>>}
  IN IF idxs = {} THEN EmptyString
     ELSE DataUri(content[CHOOSE i \in idxs : \A j \in idxs : i >= j].data)

\* generateTravelImage: the data URI of the first inline image part, or ""
FirstInline(content) ==
  LET idxs == {i \in 1..Len(content) : content[i].inline /\ content[i].data # <<>>}
  IN IF idxs = {} THEN EmptyString
     ELSE DataUri(content[CHOOSE i \in idxs : \A j \in idxs : i <= j].data)

\* callbacks that all write through one shared variable, left at the last
\* item of the list
WriteImageLastItem(q, kind, idx, url) ==
  IF url = EmptyString THEN q
  ELSE CASE kind = "hero" -> [q EXCEPT !.heroImage = url]
         [] kind = "hotel" -> [q EXCEPT !.hotels[Len(q.hotels)].image = url]
         [] kind = "restaurant" ->
              [q EXCEPT !.restaurants[Len(q.restaurants)].image = url]
         [] kind = "day" -> [q EXCEPT !.itinerary[Len(q.itinerary)].image = url]

\* a callback that writes whatever the helper returned, the empty string too
WriteImageAlways(q, kind, idx, url) ==
  CASE kind = "hero" -> [q EXCEPT !.heroImage = url]
    [] kind = "hotel" -> [q EXCEPT !.hotels[idx].image = url]
    [] kind = "restaurant" -> [q EXCEPT !.restaurants[idx].image = url]
    [] kind = "day" -> [q EXCEPT !.itinerary[idx].image = url]

\* url => { if (url) <slot>.image = url; }
WriteImage(q, kind, idx, url) ==
  IF url = EmptyString THEN q
  ELSE CASE kind = "hero" -> [q EXCEPT !.heroImage = url]
         [] kind = "hotel" -> [q EXCEPT !.hotels[idx].image = url]
         [] kind = "restaurant" -> [q EXCEPT !.restaurants[idx].image = url]
         [] kind = "day" -> [q EXCEPT !.itinerary[idx].image = url]

\* callbacks that all write through the reference captured by the first task
ImageCallReturnsFirstTask(t, content) ==
  /\ pc = "enrich"
  /\ t \in 1..Len(imageTasks)
  /\ imageTasks[t].state = "pending"
  /\ content \in ImageResponses(imageTasks[t].kind, imageTasks[t].idx)
  /\ LET url == FirstInline(content)
     IN /\ quotationData' = Some(WriteImage(quotationData.value,
                                   imageTasks[1].kind, imageTasks[1].idx, url))
        /\ imageTasks' = [imageTasks EXCEPT ![t] =
              [@ EXCEPT !.state = "fulfilled",
                        !.result = IF url # EmptyString THEN "image" ELSE "empty"]]
  /\ UNCHANGED <<pureVars, apiKey, uiVars, driver, pc, textVars, parsed, thrown, returned>>

\* the image call of task t resolves with content
ImageCallReturns(t, content) ==
  /\ pc = "enrich"
  /\ t \in 1..Len(imageTasks)
  /\ imageTasks[t].state = "pending"
  /\ content \in ImageResponses(imageTasks[t].kind, imageTasks[t].idx)
  /\ LET url == FirstInline(content)
     IN /\ quotationData' = Some(WriteImage(quotationData.value,
                                   imageTasks[t].kind, imageTasks[t].idx, url))
        /\ imageTasks' = [imageTasks EXCEPT ![t] =
              [@ EXCEPT !.state = "fulfilled",
                        !.result = IF url # EmptyString THEN "image" ELSE "empty"]]
  /\ UNCHANGED <<pureVars, apiKey, uiVars, driver, pc, textVars, parsed, thrown, returned>>

\* an image helper that lets e escape, joined by a join that rejects
ImageCallFailsPropagates(t, e) ==
  /\ pc = "enrich"
  /\ t \in 1..Len(imageTasks)
  /\ imageTasks[t].state = "pending"
  /\ imageTasks' = [imageTasks EXCEPT ![t] =
        [@ EXCEPT !.state = "rejected", !.result = "failed"]]
  /\ Throw(e)
  /\ UNCHANGED <<pureVars, apiKey, uiVars, driver, textVars, parsed, quotationData,
                 returned>>

\* the image call of task t rejects with e: generateTravelImage catches it
\* and returns "", so that the task writes nothing
ImageCallFails(t, e) ==
  /\ pc = "enrich"
  /\ t \in 1..Len(imageTasks)
  /\ imageTasks[t].state = "pending"
  /\ imageTasks' = [imageTasks EXCEPT ![t] =
        [@ EXCEPT !.state = "fulfilled", !.result = "failed"]]
  /\ UNCHANGED <<pureVars, apiKey, uiVars, driver, pc, textVars, parsed, quotationData,
                 thrown, returned>>

\* a join that returns as soon as one task has settled
AllSettledFirst ==
  /\ pc = "enrich"
  /\ \E t \in 1..Len(imageTasks) : imageTasks[t].state # "pending"
  /\ returned' = quotationData
  /\ pc' = "done"
  /\ UNCHANGED <<pureVars, apiKey, uiVars, driver, textVars, imageVars, thrown>>

\* a join that goes on only when every task has produced an image
AllSettledNeedsImages ==
  /\ pc = "enrich"
  /\ \A t \in 1..Len(imageTasks) : imageTasks[t].result = "image"
  /\ returned' = quotationData
  /\ pc' = "done"
  /\ UNCHANGED <<pureVars, apiKey, uiVars, driver, textVars, imageVars, thrown>>

\* await Promise.allSettled(imageTasks); return quotationData
AllSettled ==
  /\ pc = "enrich"
  /\ \A t \in 1..Len(imageTasks) : imageTasks[t].state # "pending"
  /\ returned' = quotationData
  /\ pc' = "done"
  /\ UNCHANGED <<pureVars, apiKey, uiVars, driver, textVars, imageVars, thrown>>

(***************************************************************************)
(* App: handleGenerate.                                                    *)
(***************************************************************************)
\* the Generate button is clicked (it is disabled while loading)
HandleGenerate ==
  /\ driver = "app"
  /\ pc = "idle"
  /\ ~loading
  /\ IF inputText = EmptyString /\ Len(files) = 0
       THEN /\ error' = Some(UiPreconditionMessage)
            /\ UNCHANGED <<loading, pc, textVars, imageVars, thrown, returned>>
       ELSE /\ error' = Null(EmptyString)
            /\ loading' = TRUE
            /\ StartRequest(inputText, files)
  /\ UNCHANGED <<pureVars, apiKey, driver, inputText, files, quotation>>

\* a handler that takes the displayed quotation away when the call fails
HandleGenerateSettlesClearsQuotation ==
  /\ driver = "app"
  /\ loading
  /\ pc \in {"done", "failed"}
  /\ IF pc = "done"
       THEN /\ quotation' = returned
            /\ UNCHANGED error
       ELSE /\ error' = Some(IF thrown.message # EmptyString
                               THEN thrown.message ELSE UiFallbackMessage)
            /\ quotation' = Null(EmptyQuotation)
  /\ loading' = FALSE
  /\ UNCHANGED <<pureVars, apiKey, inputText, files, driver, pc, textVars, imageVars,
                 thrown, returned>>

\* a handler without finally: loading is reset after a result only
HandleGenerateSettlesNoFinally ==
  /\ driver = "app"
  /\ loading
  /\ pc \in {"done", "failed"}
  /\ IF pc = "done"
       THEN /\ quotation' = returned
            /\ loading' = FALSE
            /\ UNCHANGED error
       ELSE /\ error' = Some(IF thrown.message # EmptyString
                               THEN thrown.message ELSE UiFallbackMessage)
            /\ UNCHANGED <<quotation, loading>>
  /\ UNCHANGED <<pureVars, apiKey, inputText, files, driver, pc, textVars, imageVars,
                 thrown, returned>>

\* the awaited generateQuotation call settles: try, catch and finally
HandleGenerateSettles ==
  /\ driver = "app"
  /\ loading
  /\ pc \in {"done", "failed"}
  /\ IF pc = "done"
       THEN /\ quotation' = returned
            /\ UNCHANGED error
       ELSE /\ error' = Some(IF thrown.message # EmptyString
                               THEN thrown.message ELSE UiFallbackMessage)
            /\ UNCHANGED quotation
  /\ loading' = FALSE
  /\ UNCHANGED <<pureVars, apiKey, inputText, files, driver, pc, textVars, imageVars,
                 thrown, returned>>

Next ==
  \/ \E in \in CallInputs : GenerateQuotation(in[1], in[2])
  \/ HandleGenerate
  \/ \E e \in TextErrors : TextCallFails(e)
  \/ SleepElapses
  \/ \E resp \in TextResponses : TextCallReturns(resp)
  \/ \E t \in 1..Len(imageTasks) :
        \E content \in ImageResponses(imageTasks[t].kind, imageTasks[t].idx) :
           ImageCallReturns(t, content)
  \/ \E t \in 1..Len(imageTasks), e \in ImageErrors : ImageCallFails(t, e)
  \/ AllSettled
  \/ HandleGenerateSettles

Spec == Init /\ [][Next]_vars

(***************************************************************************)
(* The Response Normalizer alone: the statements of generateQuotation      *)
(* between the retry loop and the enrichment, applied to a response text.  *)
(***************************************************************************)
\* a string value that holds two code-fence marks
StringWithFences == <<"\"", "FENCE", "sh", "FENCE", "\"">>

\* the properties of the object the model writes: scalar properties, an
\* array of tips, a string
Members ==
  {<<"BODY">>, <<"[", "]">>, <<"[", "\"Pack light\"", "]">>,
   <<"[", "\"Pack light\"", ",", "\"Carry cash\"", "]">>, StringWithFences}

RECURSIVE MemberLists(_)
MemberLists(n) ==
  IF n = 1 THEN Members
  ELSE {l \o <<",">> \o mb : l \in MemberLists(n - 1), mb \in Members}

ObjectBodies == UNION {MemberLists(n) : n \in 1..MaxMembers}

\* the closing brace and the white space before it
Closings == {<<"}">>, <<" ", "}">>, <<"\n", "}">>}

\* complete JSON objects
ValidTexts == {<<"{">> \o b \o c : b \in ObjectBodies, c \in Closings}

ArrayLastBodies == {b \in ObjectBodies : b[Len(b)] = "]"}

\* objects whose final array lost its closing bracket
TruncatedTexts ==
  {<<"{">> \o SubSeq(b, 1, Len(b) - 1) \o c :
      b \in ArrayLastBodies, c \in Closings}

\* the ways the model presents a text t: bare, padded with white space, in
\* a fence tagged json, in an untagged fence, in a fence between prose
Wrappings(t) ==
  {t,
   <<" ">> \o t \o <<"\n">>,
   <<"FENCEjson", "\n">> \o t \o <<"\n", "FENCE">>,
   <<"FENCE">> \o t \o <<"FENCE">>,
   <<"Here", " ", "FENCEjson">> \o t \o <<"FENCE", " ", "Enjoy">>}

NormalizerTexts ==
  UNION {Wrappings(t) : t \in ValidTexts \cup TruncatedTexts \cup {GarbageText}}

\* the object "BODY" stands for
NormalizerBody == MkQuotation(0, 1, 0, 0, EmptyString, <<"none", 0>>, EmptyString)

InitNormalizer ==
  /\ responseText \in NormalizerTexts
  /\ cleanText = EmptyString
  /\ pc = "normalize"
  /\ parsed = Null(EmptyQuotation)
  /\ thrown = NoError
  /\ apiKey = TRUE
  /\ driver = "direct"
  /\ inputText = EmptyString
  /\ files = <<>>
  /\ error = Null(EmptyString)
  /\ loading = FALSE
  /\ quotation = Null(EmptyQuotation)
  /\ args = NoArgs
  /\ attempt = 0
  /\ lastError = NoError
  /\ response = "text"
  /\ sleeping = 0
  /\ textCalls = <<>>
  /\ sleeps = <<>>
  /\ quotationData = Null(EmptyQuotation)
  /\ imageTasks = <<>>
  /\ returned = Null(EmptyQuotation)
  /\ urlArg = EmptyString
  /\ isValid = Null(FALSE)
  /\ MorePureIdle

normalizerFrame ==
  <<apiKey, uiVars, driver, textVars, quotationData, imageTasks, returned,
    responseText, urlArg, isValid, morePureVars>>

\* let cleanText = response.text.trim()
Trim ==
  /\ pc = "normalize"
  /\ cleanText' = trim(responseText)
  /\ pc' = "trimmed"
  /\ UNCHANGED <<normalizerFrame, parsed, thrown>>

\* if (codeBlockMatch) cleanText = codeBlockMatch[1].trim()
StripFence ==
  /\ pc = "trimmed"
  /\ cleanText' = stripFence(cleanText)
  /\ pc' = "stripped"
  /\ UNCHANGED <<normalizerFrame, parsed, thrown>>

\* the repair strategy
Repair ==
  /\ pc = "stripped"
  /\ cleanText' = repair(cleanText)
  /\ pc' = "repaired"
  /\ UNCHANGED <<normalizerFrame, parsed, thrown>>

\* try { quotationData = JSON.parse(cleanText) } catch (e) { throw ... }
Parse ==
  /\ pc = "repaired"
  /\ LET q == JSONParse(cleanText, NormalizerBody)
     IN IF q.isNull
          THEN /\ Throw(ParseError(SyntaxError))
               /\ UNCHANGED parsed
          ELSE /\ parsed' = q
               /\ pc' = "parsed"
               /\ UNCHANGED thrown
  /\ UNCHANGED <<normalizerFrame, cleanText>>

NextNormalizer ==
  \/ Trim
  \/ StripFence
  \/ Repair
  \/ Parse

SpecNormalizer == InitNormalizer /\ [][NextNormalizer]_vars

(***************************************************************************)
(* isDirectImage alone, applied to an image reference.                     *)
(***************************************************************************)
Schemes ==
  {<<>>, <<"http">>, <<"http", "s://x.com/">>, <<"HTTP", "s://x.com/">>,
   <<"data:">>, <<"ftp://x.com/">>, <<"/">>}
FileNames == {<<>>, <<"img">>, <<"page">>}
Extensions ==
  {<<>>, <<".jpg">>, <<".JPG">>, <<".jpeg">>, <<".Png">>, <<".gif">>,
   <<".webp">>, <<".html">>, <<".jpg", "/">>}
Queries ==
  {<<>>, <<"?", "size=large">>, <<"?", "next=", ".jpg">>,
   <<"?", "a", "?", "b">>}

\* the references isDirectImage is applied to
Urls ==
  {sc \o fn \o ex \o qu :
      sc \in Schemes, fn \in FileNames, ex \in Extensions, qu \in Queries}
    \cup {ModelDataUri}

InitDirectImage ==
  /\ urlArg \in Urls
  /\ isValid = Null(FALSE)
  /\ responseText = EmptyString
  /\ cleanText = EmptyString
  /\ pc = "idle"
  /\ parsed = Null(EmptyQuotation)
  /\ thrown = NoError
  /\ apiKey = TRUE
  /\ driver = "direct"
  /\ inputText = EmptyString
  /\ files = <<>>
  /\ error = Null(EmptyString)
  /\ loading = FALSE
  /\ quotation = Null(EmptyQuotation)
  /\ args = NoArgs
  /\ attempt = 0
  /\ lastError = NoError
  /\ response = "undefined"
  /\ sleeping = 0
  /\ textCalls = <<>>
  /\ sleeps = <<>>
  /\ quotationData = Null(EmptyQuotation)
  /\ imageTasks = <<>>
  /\ returned = Null(EmptyQuotation)
  /\ MorePureIdle

\* const isValid = isDirectImage(item.image || '')
CallIsDirectImage ==
  /\ isValid.isNull
  /\ isValid' = Some(isDirectImage(urlArg))
  /\ UNCHANGED <<apiKey, uiVars, driver, pc, textVars, imageVars, thrown,
                 returned, responseText, cleanText, urlArg, morePureVars>>

NextDirectImage ==
  \/ CallIsDirectImage

SpecDirectImage == InitDirectImage /\ [][NextDirectImage]_vars

(***************************************************************************)
(* QuotationPreview alone: the template it selects for its props.          *)
(***************************************************************************)
\* no generateQuotation call has been made
RequestIdle ==
  /\ pc = "idle"
  /\ args = NoArgs
  /\ attempt = 0
  /\ lastError = NoError
  /\ response = "undefined"
  /\ sleeping = 0
  /\ textCalls = <<>>
  /\ sleeps = <<>>
  /\ parsed = Null(EmptyQuotation)
  /\ quotationData = Null(EmptyQuotation)
  /\ imageTasks = <<>>
  /\ thrown = NoError
  /\ returned = Null(EmptyQuotation)

NormalizerIdle ==
  /\ responseText = EmptyString
  /\ cleanText = EmptyString
  /\ urlArg = EmptyString
  /\ isValid = Null(FALSE)

\* a list property of data: undefined, or a list of 0..MaxPreviewItems items
PreviewLists ==
  {Null(<<>>)} \cup {Some([i \in 1..n |-> Digits[i]]) : n \in 0..MaxPreviewItems}

\* the data prop: null, or a Quotation
PreviewData ==
  {Null(EmptyQuotation)}
    \cup {Some([flights |-> f, hotels |-> h, itinerary |-> it,
                restaurants |-> r, heroImage |-> EmptyString]) :
             f \in PreviewLists, h \in PreviewLists, it \in PreviewLists,
             r \in {<<>>, <<"1">>}}

\* data.list && data.list.length > 0
hasItems(list) == ~list.isNull /\ Len(list.value) > 0

\* a detection that does not look at the itinerary
isFlightOnlyNoItinerary(data) ==
  hasItems(data.flights) /\ ~hasItems(data.hotels)

isFlightOnly(data) ==
  hasItems(data.flights) /\ ~hasItems(data.hotels) /\ ~hasItems(data.itinerary)

isHotelOnly(data) ==
  hasItems(data.hotels) /\ ~hasItems(data.flights) /\ ~hasItems(data.itinerary)

InitPreview ==
  /\ quotation \in PreviewData
  /\ loading \in BOOLEAN
  /\ apiKey = TRUE
  /\ driver = "app"
  /\ inputText = EmptyString
  /\ files = <<>>
  /\ error = Null(EmptyString)
  /\ RequestIdle
  /\ NormalizerIdle
  /\ MorePureIdle

\* QuotationPreview({ data: quotation, loading })
RenderPreview ==
  /\ template.isNull
  /\ template' = Some(IF loading THEN "loading"
                      ELSE IF quotation.isNull THEN "placeholder"
                      ELSE IF isFlightOnly(quotation.value) THEN "flightOnly"
                      ELSE IF isHotelOnly(quotation.value) THEN "hotelOnly"
                      ELSE "package")
  /\ UNCHANGED <<apiKey, uiVars, driver, pc, textVars, imageVars, thrown,
                 returned, responseText, cleanText, urlArg, isValid,
                 imageCall, imageUrl, caught, classified, frames>>

NextPreview ==
  \/ RenderPreview

SpecPreview == InitPreview /\ [][NextPreview]_vars

(***************************************************************************)
(* generateTravelImage alone.                                              *)
(***************************************************************************)
\* the parts of a response: text, inline data A or B, inline data without
\* data
PartKinds ==
  {TextPart, InlinePart(<<"A">>), InlinePart(<<"B">>), InlinePart(<<>>)}

RECURSIVE PartLists(_)
PartLists(n) ==
  IF n = 0 THEN {<<>>}
  ELSE {Append(l, pt) : l \in PartLists(n - 1), pt \in PartKinds}

\* how the image call settles: a response with parts, a response without
\* candidates, a rejection
ImageCalls ==
  {[kind |-> "resolve", parts |-> l] : l \in UNION {PartLists(n) : n \in 0..MaxParts}}
    \cup {[kind |-> "noCandidates"]}
    \cup {[kind |-> "reject", error |-> e] : e \in ImageErrors}

InitImage ==
  /\ apiKey \in BOOLEAN
  /\ imageCall \in ImageCalls
  /\ imageUrl = Null(EmptyString)
  /\ driver = "direct"
  /\ inputText = EmptyString
  /\ files = <<>>
  /\ error = Null(EmptyString)
  /\ loading = FALSE
  /\ quotation = Null(EmptyQuotation)
  /\ RequestIdle
  /\ NormalizerIdle
  /\ template = Null("")
  /\ caught = NoError
  /\ classified = Null("")
  /\ frames = <<>>

imageFrame ==
  <<apiKey, uiVars, driver, textVars, imageVars, thrown, returned,
    responseText, cleanText, urlArg, isValid, template, imageCall, caught,
    classified, frames>>

\* generateTravelImage(prompt) up to its await: without a key it returns ""
GenerateTravelImage ==
  /\ pc = "idle"
  /\ imageUrl.isNull
  /\ IF ~apiKey
       THEN imageUrl' = Some(EmptyString) /\ pc' = "done"
       ELSE pc' = "imageCall" /\ UNCHANGED imageUrl
  /\ UNCHANGED imageFrame

\* the call resolves: the first inline part with data, or ""
ImageResolves ==
  /\ pc = "imageCall"
  /\ imageCall.kind \in {"resolve", "noCandidates"}
  /\ imageUrl' = Some(IF imageCall.kind = "resolve"
                        THEN FirstInline(imageCall.parts) ELSE EmptyString)
  /\ pc' = "done"
  /\ UNCHANGED imageFrame

\* the call rejects: both branches of the catch block return ""
ImageRejects ==
  /\ pc = "imageCall"
  /\ imageCall.kind = "reject"
  /\ imageUrl' = Some(EmptyString)
  /\ pc' = "done"
  /\ UNCHANGED imageFrame

NextImage ==
  \/ GenerateTravelImage
  \/ ImageResolves
  \/ ImageRejects

SpecImage == InitImage /\ [][NextImage]_vars

(***************************************************************************)
(* The catch block of the retry loop alone, applied to an error.           *)
(***************************************************************************)
ErrorMessages ==
  {EmptyString, <<"Bad", " ", "request">>, <<"Quota", " ", "exceeded">>,
   <<"RESOURCE_EXHAUSTED">>, <<"code", " ", "429">>,
   <<"Internal", " ", "error", " ", "encountered">>,
   <<"internal", " ", "error">>, E500Quota.message}

\* what the text-completion call can reject with
CaughtErrors ==
  {MkError(n, st, cd, msg) :
      n \in {"Error", "ApiError"}, st \in {0, 400, 429, 500, 503},
      cd \in {"", "INTERNAL"}, msg \in ErrorMessages}

InitClassify ==
  /\ caught \in CaughtErrors
  /\ classified = Null("")
  /\ apiKey = TRUE
  /\ driver = "direct"
  /\ inputText = EmptyString
  /\ files = <<>>
  /\ error = Null(EmptyString)
  /\ loading = FALSE
  /\ quotation = Null(EmptyQuotation)
  /\ RequestIdle
  /\ NormalizerIdle
  /\ template = Null("")
  /\ imageCall = [kind |-> "none"]
  /\ imageUrl = Null(EmptyString)
  /\ frames = <<>>

\* catch (e) { lastError = e; quota? internal? other? }
CatchError ==
  /\ classified.isNull
  /\ classified' = Some(Classify(caught))
  /\ UNCHANGED <<apiKey, uiVars, driver, pc, textVars, imageVars, thrown,
                 returned, responseText, cleanText, urlArg, isValid, template,
                 imageCall, imageUrl, caught, frames>>

NextClassify ==
  \/ CatchError

SpecClassify == InitClassify /\ [][NextClassify]_vars

(***************************************************************************)
(* Several generateQuotation invocations, one after another or overlapping *)
(* on the event loop. frames[r] holds the local variables of invocation r. *)
(***************************************************************************)
ConcurrentErrors == {E429, E500, E400}

\* what the text model answers to invocation r
FrameBody(r) == MkQuotation(0, 1, 0, 0, PageUrl, <<"hotel", 1>>, JpgUrl)
FrameResponses(r) ==
  {[text |-> EmptyString, body |-> FrameBody(r)],
   [text |-> GoodText, body |-> FrameBody(r)]}

\* the image the image model draws for slot (kind, idx) of invocation r
FrameImage(r, kind, idx) ==
  <<InlinePart(<<"request", Digits[r]>> \o InlineData(kind, idx))>>

\* locals that start from those of the invocation before
CarriedLocals(earlier) ==
  IF Len(earlier) = 0 THEN [attempt |-> 0, lastError |-> NoError]
  ELSE [attempt |-> earlier[Len(earlier)].attempt,
        lastError |-> earlier[Len(earlier)].lastError]

\* let response; let lastError; for (let attempt = 0; ...): declared in the
\* body of the function, whatever the earlier invocations did
FreshLocals(earlier) == [attempt |-> 0, lastError |-> NoError]

\* an invocation up to its first await (API key present, text given)
NewFrame(earlier) ==
  LET l == FreshLocals(earlier)
  IN [pc |-> "textCall",
      attempt |-> l.attempt,
      lastError |-> l.lastError,
      textCalls |-> <<[useTools |-> useTools(l.attempt), state |-> "pending"]>>,
      quotationData |-> Null(EmptyQuotation),
      imageTasks |-> <<>>,
      thrown |-> NoError,
      returned |-> Null(EmptyQuotation)]

\* the catch block and what follows it up to the next await
FrameTextFails(f, e) ==
  LET calls == MarkLast(f.textCalls, "failed")
      g == [f EXCEPT !.lastError = e, !.textCalls = calls]
  IN CASE Classify(e) = "quota" ->
            [g EXCEPT !.pc = "failed", !.thrown = QuotaExceededError]
       [] Classify(e) = "continue" ->
            IF f.attempt + 1 >= maxRetries
              THEN [g EXCEPT !.attempt = @ + 1, !.pc = "failed",
                             !.thrown = NoTextError(e)]
              ELSE IF NeedsSleep(f.attempt + 1)
              THEN [g EXCEPT !.attempt = @ + 1, !.pc = "sleep"]
              ELSE [g EXCEPT !.attempt = @ + 1,
                             !.textCalls = Append(calls,
                                [useTools |-> useTools(f.attempt + 1),
                                 state |-> "pending"])]
       [] OTHER -> [g EXCEPT !.pc = "failed", !.thrown = e]

\* the backoff timer of the invocation fires
FrameSleepElapses(f) ==
  [f EXCEPT !.pc = "textCall",
            !.textCalls = Append(@, [useTools |-> useTools(f.attempt),
                                     state |-> "pending"])]

\* the text-completion call of the invocation resolves with resp
FrameTextReturns(f, resp) ==
  LET g == [f EXCEPT !.textCalls = MarkLast(@, "returned")]
      q == JSONParse(normalize(resp.text), resp.body)
  IN IF ~HasText(resp)
       THEN [g EXCEPT !.pc = "failed", !.thrown = NoTextError(f.lastError)]
       ELSE IF q.isNull
       THEN [g EXCEPT !.pc = "failed", !.thrown = ParseError(SyntaxError)]
       ELSE [g EXCEPT !.pc = "enrich",
                      !.quotationData = Some(ClearedQuotation(q.value)),
                      !.imageTasks = EnqueuedTasks(q.value)]

\* image task t of the invocation resolves with content
FrameImageReturns(f, t, content) ==
  LET url == FirstInline(content)
  IN [f EXCEPT !.quotationData = Some(WriteImage(f.quotationData.value,
                      f.imageTasks[t].kind, f.imageTasks[t].idx, url)),
               !.imageTasks[t] =
                   [@ EXCEPT !.state = "fulfilled",
                             !.result = IF url # EmptyString THEN "image"
                                        ELSE "empty"]]

\* image task t of the invocation fails: the helper returns ""
FrameImageFails(f, t) ==
  [f EXCEPT !.imageTasks[t] =
       [@ EXCEPT !.state = "fulfilled", !.result = "failed"]]

\* await Promise.allSettled(imageTasks); return quotationData
FrameAllSettled(f) ==
  [f EXCEPT !.pc = "done", !.returned = f.quotationData]

InitConcurrent ==
  /\ frames = <<>>
  /\ apiKey = TRUE
  /\ driver = "direct"
  /\ inputText = EmptyString
  /\ files = <<>>
  /\ error = Null(EmptyString)
  /\ loading = FALSE
  /\ quotation = Null(EmptyQuotation)
  /\ RequestIdle
  /\ NormalizerIdle
  /\ template = Null("")
  /\ imageCall = [kind |-> "none"]
  /\ imageUrl = Null(EmptyString)
  /\ caught = NoError
  /\ classified = Null("")

concurrentFrame ==
  UNCHANGED <<apiKey, uiVars, driver, pc, textVars, imageVars, thrown,
              returned, responseText, cleanText, urlArg, isValid, template,
              imageCall, imageUrl, caught, classified>>

\* generateQuotation is called, whatever the state of the earlier calls
Invoke ==
  /\ Len(frames) < MaxRequests
  /\ frames' = Append(frames, NewFrame(frames))
  /\ concurrentFrame

TextFailsIn(r, e) ==
  /\ frames[r].pc = "textCall"
  /\ frames' = [frames EXCEPT ![r] = FrameTextFails(@, e)]
  /\ concurrentFrame

SleepElapsesIn(r) ==
  /\ frames[r].pc = "sleep"
  /\ frames' = [frames EXCEPT ![r] = FrameSleepElapses(@)]
  /\ concurrentFrame

TextReturnsIn(r, resp) ==
  /\ frames[r].pc = "textCall"
  /\ frames' = [frames EXCEPT ![r] = FrameTextReturns(@, resp)]
  /\ concurrentFrame

ImageReturnsIn(r, t) ==
  /\ frames[r].pc = "enrich"
  /\ frames[r].imageTasks[t].state = "pending"
  /\ frames' = [frames EXCEPT ![r] =
        FrameImageReturns(@, t,
           FrameImage(r, frames[r].imageTasks[t].kind, frames[r].imageTasks[t].idx))]
  /\ concurrentFrame

ImageFailsIn(r, t) ==
  /\ frames[r].pc = "enrich"
  /\ frames[r].imageTasks[t].state = "pending"
  /\ frames' = [frames EXCEPT ![r] = FrameImageFails(@, t)]
  /\ concurrentFrame

AllSettledIn(r) ==
  /\ frames[r].pc = "enrich"
  /\ \A t \in 1..Len(frames[r].imageTasks) :
        frames[r].imageTasks[t].state # "pending"
  /\ frames' = [frames EXCEPT ![r] = FrameAllSettled(@)]
  /\ concurrentFrame

NextConcurrent ==
  \/ Invoke
  \/ \E r \in 1..Len(frames), e \in ConcurrentErrors : TextFailsIn(r, e)
  \/ \E r \in 1..Len(frames) : SleepElapsesIn(r)
  \/ \E r \in 1..Len(frames) : \E resp \in FrameResponses(r) : TextReturnsIn(r, resp)
  \/ \E r \in 1..Len(frames) : \E t \in 1..Len(frames[r].imageTasks) :
        ImageReturnsIn(r, t)
  \/ \E r \in 1..Len(frames) : \E t \in 1..Len(frames[r].imageTasks) :
        ImageFailsIn(r, t)
  \/ \E r \in 1..Len(frames) : AllSettledIn(r)

SpecConcurrent == InitConcurrent /\ [][NextConcurrent]_vars

(***************************************************************************)
(* The App over several requests: the user types, clicks Generate, waits   *)
(* for the call to settle and clicks again.                                *)
(***************************************************************************)
\* a rejection without message, as new Error() makes
EEmptyMessage == MkError("Error", 0, "", EmptyString)

AppErrors == {E500, E400, EEmptyMessage}

AppBody == MkQuotation(0, 1, 0, 0, EmptyString, <<"none", 0>>, EmptyString)
AppResponses ==
  {[text |-> t, body |-> AppBody] : t \in {EmptyString, GoodText, GarbageText}}

InitApp ==
  /\ Init
  /\ driver = "app"

\* onChange={(e) => setInputText(e.target.value)}
SetInputText(t) ==
  /\ driver = "app"
  /\ inputText # t
  /\ inputText' = t
  /\ UNCHANGED <<pureVars, apiKey, driver, files, error, loading, quotation,
                 pc, textVars, imageVars, thrown, returned>>

\* a generateQuotation invocation after an earlier one is over: its locals
\* are new, then the credential and precondition checks and the first call
FreshRequest(textInput, fileList) ==
  /\ args' = [textInput |-> textInput, files |-> fileList]
  /\ attempt' = 0
  /\ lastError' = NoError
  /\ response' = "undefined"
  /\ sleeping' = 0
  /\ sleeps' = <<>>
  /\ parsed' = Null(EmptyQuotation)
  /\ quotationData' = Null(EmptyQuotation)
  /\ imageTasks' = <<>>
  /\ returned' = Null(EmptyQuotation)
  /\ IF ~apiKey
       THEN /\ Throw(ApiKeyMissingError)
            /\ textCalls' = <<>>
       ELSE IF PartsLength(textInput, fileList) = 0
       THEN /\ Throw(PreconditionError)
            /\ textCalls' = <<>>
       ELSE /\ textCalls' = <<[useTools |-> useTools(0), state |-> "pending"]>>
            /\ pc' = "textCall"
            /\ thrown' = NoError

\* the Generate button is clicked again once the earlier call has settled
HandleGenerateAgain ==
  /\ driver = "app"
  /\ pc \in {"done", "failed"}
  /\ ~loading
  /\ IF inputText = EmptyString /\ Len(files) = 0
       THEN /\ error' = Some(UiPreconditionMessage)
            /\ UNCHANGED <<loading, pc, textVars, imageVars, thrown, returned>>
       ELSE /\ error' = Null(EmptyString)
            /\ loading' = TRUE
            /\ FreshRequest(inputText, files)
  /\ UNCHANGED <<pureVars, apiKey, driver, inputText, files, quotation>>

NextApp ==
  \/ \E t \in TextInputs : SetInputText(t)
  \/ HandleGenerate
  \/ HandleGenerateAgain
  \/ \E e \in AppErrors : TextCallFails(e)
  \/ SleepElapses
  \/ \E resp \in AppResponses : TextCallReturns(resp)
  \/ \E t \in 1..Len(imageTasks) :
        \E content \in ImageResponses(imageTasks[t].kind, imageTasks[t].idx) :
           ImageCallReturns(t, content)
  \/ \E t \in 1..Len(imageTasks), e \in ImageErrors : ImageCallFails(t, e)
  \/ AllSettled
  \/ HandleGenerateSettles

\* the continuation of an awaited promise that has settled is run
SpecApp == InitApp /\ [][NextApp]_vars /\ WF_vars(HandleGenerateSettles)

(***************************************************************************)
(* One generateQuotation request against a backend that answers every     *)
(* call, and an event loop that runs every timer and continuation.         *)
(***************************************************************************)
\* hero, one hotel and one day
FairBody == MkQuotation(0, 1, 0, 1, PageUrl, <<"day", 1>>, PageUrl)
\* one subtask per slot of FairBody
FairTasks ==
  1 + Len(FairBody.hotels) + Len(FairBody.restaurants) + Len(FairBody.itinerary)

FairResponses ==
  {[text |-> t, body |-> FairBody] : t \in {EmptyString, GoodText, GarbageText}}

InitFair ==
  /\ Init
  /\ driver = "direct"

\* the pending text-completion call rejects or resolves
TextCallSettles ==
  \/ \E e \in TextErrors : TextCallFails(e)
  \/ \E resp \in FairResponses : TextCallReturns(resp)

\* the image call of task t resolves or rejects
ImageCallSettles(t) ==
  \/ \E content \in ImageResponses(imageTasks[t].kind, imageTasks[t].idx) :
        ImageCallReturns(t, content)
  \/ \E e \in ImageErrors : ImageCallFails(t, e)

NextFair ==
  \/ \E in \in CallInputs : GenerateQuotation(in[1], in[2])
  \/ TextCallSettles
  \/ SleepElapses
  \/ \E t \in 1..Len(imageTasks) : ImageCallSettles(t)
  \/ AllSettled

SpecFair ==
  /\ InitFair
  /\ [][NextFair]_vars
  /\ WF_vars(TextCallSettles)
  /\ WF_vars(SleepElapses)
  /\ \A t \in 1..FairTasks : WF_vars(t <= Len(imageTasks) /\ ImageCallSettles(t))
  /\ WF_vars(AllSettled)

(***************************************************************************)
(* The Generate button and the handleGenerate invocations it starts, each  *)
(* with the generateQuotation call it awaits as a frame of frames.         *)
(***************************************************************************)
\* a button that can always be clicked
GenerateNeverDisabled == FALSE

\* <button onClick={handleGenerate} disabled={loading}>
GenerateDisabled == loading

InitClicks ==
  /\ frames = <<>>
  /\ apiKey = TRUE
  /\ driver = "app"
  /\ inputText \in TextInputs
  /\ files = <<>>
  /\ error = Null(EmptyString)
  /\ loading = FALSE
  /\ quotation = Null(EmptyQuotation)
  /\ RequestIdle
  /\ NormalizerIdle
  /\ template = Null("")
  /\ imageCall = [kind |-> "none"]
  /\ imageUrl = Null(EmptyString)
  /\ caught = NoError
  /\ classified = Null("")

clicksFrame ==
  UNCHANGED <<apiKey, driver, files, pc, textVars, imageVars, thrown,
              returned, responseText, cleanText, urlArg, isValid, template,
              imageCall, imageUrl, caught, classified>>

\* the user clicks Generate: handleGenerate up to its await
ClickGenerate ==
  /\ ~GenerateDisabled
  /\ Len(frames) < MaxRequests
  /\ IF inputText = EmptyString /\ Len(files) = 0
       THEN /\ error' = Some(UiPreconditionMessage)
            /\ UNCHANGED <<loading, frames>>
       ELSE /\ error' = Null(EmptyString)
            /\ loading' = TRUE
            /\ frames' = Append(frames, NewFrame(frames))
  /\ UNCHANGED <<inputText, quotation>>
  /\ clicksFrame

\* the user types into the notes field
TypeInputText(t) ==
  /\ inputText # t
  /\ inputText' = t
  /\ UNCHANGED <<error, loading, quotation, frames>>
  /\ clicksFrame

\* handleGenerate resumes after the call of invocation r: try or catch,
\* then finally
ResumeAfter(r) ==
  /\ frames[r].pc \in {"done", "failed"}
  /\ IF frames[r].pc = "done"
       THEN /\ quotation' = frames[r].returned
            /\ UNCHANGED error
       ELSE /\ error' = Some(IF frames[r].thrown.message # EmptyString
                               THEN frames[r].thrown.message
                               ELSE UiFallbackMessage)
            /\ UNCHANGED quotation
  /\ loading' = FALSE
  /\ frames' = [frames EXCEPT ![r].pc = "resumed"]
  /\ UNCHANGED inputText
  /\ clicksFrame

NextClicks ==
  \/ ClickGenerate
  \/ \E t \in TextInputs : TypeInputText(t)
  \/ \E r \in 1..Len(frames), e \in ConcurrentErrors : TextFailsIn(r, e)
  \/ \E r \in 1..Len(frames) : SleepElapsesIn(r)
  \/ \E r \in 1..Len(frames) : \E resp \in FrameResponses(r) : TextReturnsIn(r, resp)
  \/ \E r \in 1..Len(frames) : \E t \in 1..Len(frames[r].imageTasks) :
        ImageReturnsIn(r, t)
  \/ \E r \in 1..Len(frames) : \E t \in 1..Len(frames[r].imageTasks) :
        ImageFailsIn(r, t)
  \/ \E r \in 1..Len(frames) : AllSettledIn(r)
  \/ \E r \in 1..Len(frames) : ResumeAfter(r)

SpecClicks == InitClicks /\ [][NextClicks]_vars

(***************************************************************************)
(* App: handleFileChange. frames[b] holds the closure of the b-th file     *)
(* selection: its fileList, its newFiles and the readers still reading.    *)
(***************************************************************************)
\* { name: file.name, type: file.type, data: reader.result }
FileUploadOf(b, i) ==
  [name |-> <<"file", Digits[b], Digits[i]>>,
   type |-> "application/pdf",
   data |-> <<"data:", "application/pdf;base64,", Digits[b], Digits[i]>>]

\* an attachment of a batch that was read before
EarlierUpload ==
  [name |-> <<"notes.pdf">>, type |-> "application/pdf",
   data |-> <<"data:", "application/pdf;base64,", "0">>]

\* a test that holds after every reader
BatchCompleteEachTime(newFiles, fileList) == TRUE

\* if (newFiles.length === fileList.length)
BatchComplete(newFiles, fileList) == Len(newFiles) = Len(fileList)

InitFiles ==
  /\ frames = <<>>
  /\ files \in {<<>>, <<EarlierUpload>>}
  /\ apiKey = TRUE
  /\ driver = "app"
  /\ inputText = EmptyString
  /\ error = Null(EmptyString)
  /\ loading = FALSE
  /\ quotation = Null(EmptyQuotation)
  /\ RequestIdle
  /\ NormalizerIdle
  /\ template = Null("")
  /\ imageCall = [kind |-> "none"]
  /\ imageUrl = Null(EmptyString)
  /\ caught = NoError
  /\ classified = Null("")

filesFrame ==
  UNCHANGED <<apiKey, driver, inputText, error, loading, quotation, pc,
              textVars, imageVars, thrown, returned, responseText, cleanText,
              urlArg, isValid, template, imageCall, imageUrl, caught,
              classified>>

\* the user selects n files: one reader is started per file
HandleFileChange(n) ==
  /\ Len(frames) < MaxBatches
  /\ n > 0
  /\ frames' = Append(frames,
        [fileList |-> [i \in 1..n |-> FileUploadOf(Len(frames) + 1, i)],
         newFiles |-> <<>>,
         reading |-> 1..n])
  /\ UNCHANGED files
  /\ filesFrame

\* reader.onloadend of file i of selection b
ReaderLoadEnd(b, i) ==
  /\ i \in frames[b].reading
  /\ LET newFiles == Append(frames[b].newFiles, frames[b].fileList[i])
     IN /\ frames' = [frames EXCEPT ![b].newFiles = newFiles,
                                    ![b].reading = @ \ {i}]
        /\ files' = IF BatchComplete(newFiles, frames[b].fileList)
                      THEN files \o newFiles
                      ELSE files
  /\ filesFrame

NextFiles ==
  \/ \E n \in 0..MaxBatchFiles : HandleFileChange(n)
  \/ \E b \in 1..Len(frames) : \E i \in 1..Len(frames[b].fileList) :
        ReaderLoadEnd(b, i)

SpecFiles == InitFiles /\ [][NextFiles]_vars

(***************************************************************************)
(* The two entry points of the service, with and without an API key: a     *)
(* behaviour is one call of generateQuotation or of generateTravelImage.   *)
(***************************************************************************)
CredentialImageCalls ==
  {[kind |-> "resolve", parts |-> <<InlinePart(<<"A">>)>>],
   [kind |-> "noCandidates"],
   [kind |-> "reject", error |-> E500]}

InitCredential ==
  /\ apiKey \in BOOLEAN
  /\ imageCall \in CredentialImageCalls
  /\ imageUrl = Null(EmptyString)
  /\ driver = "direct"
  /\ inputText = EmptyString
  /\ files = <<>>
  /\ error = Null(EmptyString)
  /\ loading = FALSE
  /\ quotation = Null(EmptyQuotation)
  /\ RequestIdle
  /\ NormalizerIdle
  /\ template = Null("")
  /\ caught = NoError
  /\ classified = Null("")
  /\ frames = <<>>

NextCredential ==
  \/ \E in \in CallInputs : GenerateQuotation(in[1], in[2])
  \/ TextCallSettles
  \/ SleepElapses
  \/ \E t \in 1..Len(imageTasks) : ImageCallSettles(t)
  \/ AllSettled
  \/ GenerateTravelImage
  \/ ImageResolves
  \/ ImageRejects

SpecCredential == InitCredential /\ [][NextCredential]_vars

(***************************************************************************)
(* Properties.                                                             *)
(***************************************************************************)
NumCalls == Len(textCalls)
LastCall == textCalls[NumCalls]
PendingCalls == {i \in 1..NumCalls : textCalls[i].state = "pending"}
FailedBefore(n) == \A i \in 1..(n - 1) : textCalls[i].state = "failed"
Terminal == pc \in {"failed", "enrich", "done"}

\* the last event of the text phase is a failed attempt whose error is
\* lastError
FailureObserved ==
  /\ NumCalls > 0
  /\ lastError # NoError
  /\ LastCall.state = "failed"

\* C1 (quota short-circuit): when a text-completion attempt has failed with
\* an error classified as quota, the request has failed with the
\* quota-exceeded error, the failed call is the last one issued (no retry,
\* no backoff started) and no image call was made.
C1_QuotaShortCircuit ==
  (lastError # NoError /\ isQuotaError(lastError)) =>
     /\ pc = "failed"
     /\ thrown = QuotaExceededError
     /\ FailureObserved
     /\ FailedBefore(NumCalls)
     /\ Len(sleeps) = NumCalls - 1
     /\ imageTasks = <<>>

\* the first attempt fails with a quota error
C1_Witness ==
  /\ NumCalls = 1
  /\ lastError = E429
  /\ thrown = QuotaExceededError
  /\ pc = "failed"

C3_ScheduleInv ==
  /\ NumCalls <= 3
  /\ \A i \in 1..NumCalls : textCalls[i].useTools = (i <= 2)
  /\ FailedBefore(NumCalls)
  /\ Terminal /\ NumCalls > 0 => LastCall.state # "pending"

C3_ScheduleStep ==
  /\ Len(textCalls') \in {NumCalls, NumCalls + 1}
  /\ Terminal => textCalls' = textCalls /\ pc' \in {"failed", "enrich", "done"}
  /\ Len(textCalls') = NumCalls + 1 /\ NumCalls > 0 =>
        /\ textCalls[NumCalls].state \in {"pending", "failed"}
        /\ textCalls'[NumCalls].state = "failed"

C3_AttemptSchedule == []C3_ScheduleInv /\ [][C3_ScheduleStep]_vars

\* the third, ungrounded call is in flight
C3_Witness ==
  /\ NumCalls = 3
  /\ textCalls[1].useTools /\ textCalls[2].useTools /\ ~textCalls[3].useTools
  /\ textCalls[3].state = "pending"

\* C4 (non-transient errors are terminal): when an attempt has failed with
\* an error that is neither quota nor internal, the request has failed with
\* that very error, the failed call is the last one issued, no backoff was
\* started for it and no image call was made.
C4_NonTransientTerminal ==
  (lastError # NoError /\ ~isQuotaError(lastError)
      /\ ~isInternalError(lastError)) =>
     /\ pc = "failed"
     /\ thrown = lastError
     /\ FailureObserved
     /\ FailedBefore(NumCalls)
     /\ Len(sleeps) = NumCalls - 1
     /\ imageTasks = <<>>
     /\ parsed.isNull

\* a malformed-request error on the second attempt
C4_Witness ==
  /\ NumCalls = 2
  /\ lastError = E400
  /\ thrown = E400
  /\ pc = "failed"

\* the request has failed by raising the error of a backend failure that is
\* classified as internal (and not as quota)
TransientSurfaced ==
  /\ pc = "failed"
  /\ thrown \in TextErrors
  /\ isInternalError(thrown)
  /\ ~isQuotaError(thrown)

\* C5 (transient failures): after an internal failure with attempts left the
\* request is on its way to the next attempt; an internal failure is raised
\* to the caller only when all three attempts have failed, and it is then
\* the error of the third attempt.
C5_TransientOnlyOnExhaustion ==
  /\ (FailureObserved /\ Classify(lastError) = "continue"
        /\ NumCalls < maxRetries) =>
        (pc = "sleep" /\ thrown = NoError)
  /\ TransientSurfaced =>
        (NumCalls = maxRetries /\ FailedBefore(maxRetries + 1)
           /\ thrown = lastError)

\* C6, as stated: a request that ends because the attempts are exhausted, or
\* because a call returned a response without text, fails with the generic
\* "failed after multiple attempts" error.
C6_GenericErrorOnExhaustion ==
  (pc = "failed" /\ (attempt = maxRetries \/ response = "empty")) =>
     thrown.message = GenericFailureError.message

\* C6, amended: such a request fails with the error of its most recent
\* failed attempt, unwrapped, and with the generic "failed after multiple
\* attempts" error only when no attempt has failed, that is when the first
\* call returned a response without text.
C6_LastErrorOrGeneric ==
  /\ (pc = "failed" /\ (attempt = maxRetries \/ response = "empty")) =>
        thrown = (IF lastError # NoError THEN lastError
                  ELSE GenericFailureError)
  /\ thrown = GenericFailureError =>
        (NumCalls = 1 /\ response = "empty" /\ lastError = NoError)

\* the first call returns a response without text
C6_Witness ==
  /\ pc = "failed"
  /\ NumCalls = 1
  /\ response = "empty"
  /\ thrown = GenericFailureError

\* C7 (sequential attempts): at most one text-completion call is in flight;
\* a call is issued only after every earlier call has failed and after one
\* backoff sleep per earlier call has elapsed; no call is in flight during
\* a backoff sleep.
C7_SequentialAttempts ==
  /\ Cardinality(PendingCalls) <= 1
  /\ FailedBefore(NumCalls)
  /\ NumCalls > 0 => Len(sleeps) = NumCalls - 1
  /\ \A k \in 1..Len(sleeps) : sleeps[k] > 0
  /\ pc = "sleep" => (PendingCalls = {} /\ sleeping > 0)

\* the second attempt is in flight after the first backoff
C7_Witness ==
  /\ NumCalls = 2
  /\ textCalls[1].state = "failed"
  /\ textCalls[2].state = "pending"
  /\ Len(sleeps) = 1

\* generateQuotation has been called without text and without files
CalledEmpty ==
  /\ pc # "idle"
  /\ args.textInput = EmptyString
  /\ Len(args.files) = 0

\* the App has neither text nor files
UiEmpty == inputText = EmptyString /\ Len(files) = 0

\* C8, as stated: a call without text and without files has failed with the
\* "provide text details or upload a file" error and has issued no backend
\* call; with neither text nor files the App only sets its error.
C8_PreconditionAlways ==
  /\ CalledEmpty =>
        /\ pc = "failed"
        /\ thrown = PreconditionError
        /\ textCalls = <<>> /\ imageTasks = <<>>
  /\ (driver = "app" /\ UiEmpty) => (pc = "idle" /\ ~loading)

\* C8, amended: with the API key present, a call without text and without
\* files has failed with the "provide text details or upload a file" error;
\* without the key it has failed with "API Key is missing"; in both cases
\* no backend call is issued.  With neither text nor files the App never
\* starts a request nor sets loading, and the only change it makes is to
\* set its own error message.
C8_PreconditionInv ==
  /\ CalledEmpty =>
        /\ pc = "failed"
        /\ thrown = (IF apiKey THEN PreconditionError ELSE ApiKeyMissingError)
        /\ textCalls = <<>> /\ imageTasks = <<>>
  /\ thrown = PreconditionError => (CalledEmpty /\ apiKey)
  /\ (driver = "app" /\ UiEmpty) =>
        /\ pc = "idle" /\ ~loading
        /\ error \in {Null(EmptyString), Some(UiPreconditionMessage)}
        /\ quotation.isNull

C8_PreconditionStep ==
  (driver = "app" /\ UiEmpty) =>
     /\ error' = Some(UiPreconditionMessage)
     /\ UNCHANGED <<loading, quotation, pc, textVars, imageVars>>

C8_Precondition == []C8_PreconditionInv /\ [][C8_PreconditionStep]_vars

\* a call without text and files has failed on the precondition
C8_Witness ==
  /\ CalledEmpty
  /\ apiKey
  /\ pc = "failed"
  /\ thrown = PreconditionError

TaskResults == {imageTasks[t].result : t \in 1..Len(imageTasks)}
AllTasksSettled ==
  \A t \in 1..Len(imageTasks) : imageTasks[t].state = "fulfilled"

Names(items) == [i \in 1..Len(items) |-> items[i].name]

\* q and p are the same Quotation up to their image fields
SameButImages(q, p) ==
  /\ q.destination = p.destination
  /\ q.flights = p.flights
  /\ q.travelTips = p.travelTips
  /\ Names(q.hotels) = Names(p.hotels)
  /\ Names(q.restaurants) = Names(p.restaurants)
  /\ Names(q.itinerary) = Names(p.itinerary)

\* C9 (enrichment never fails the request): once the text has been parsed
\* into a Quotation the request never fails, whatever the image calls do:
\* it waits while image tasks are pending, every task settles as fulfilled,
\* and when all have settled the request can return and then has returned
\* the parsed Quotation (with its image fields updated).
C9_EnrichmentNeverFails ==
  ~parsed.isNull =>
     /\ pc \in {"enrich", "done"}
     /\ thrown = NoError
     /\ \A t \in 1..Len(imageTasks) :
           imageTasks[t].state \in {"pending", "fulfilled"}
     /\ (pc = "enrich" /\ AllTasksSettled) => ENABLED AllSettled
     /\ pc = "done" =>
           /\ AllTasksSettled
           /\ ~returned.isNull
           /\ returned = quotationData
           /\ SameButImages(returned.value, parsed.value)

\* a Quotation is returned although one image call failed, one returned no
\* image and one returned an image
C9_Witness ==
  /\ pc = "done"
  /\ ~returned.isNull
  /\ {"failed", "empty", "image"} \subseteq TaskResults

HotelTasks == {t \in 1..Len(imageTasks) : imageTasks[t].kind = "hotel"}

HotelImage(i) == quotationData.value.hotels[i].image

\* C10 (enrichment isolation): at every moment of the enrichment, and in the
\* returned Quotation, each hotel holds the image its own subtask produced
\* if that subtask returned one, and an empty image if its subtask is still
\* pending, failed or returned nothing, whatever the sibling subtasks did.
C10_EnrichmentIsolation ==
  (pc \in {"enrich", "done"}) =>
     /\ \A t \in HotelTasks :
          LET i == imageTasks[t].idx
          IN /\ i \in 1..Len(quotationData.value.hotels)
             /\ imageTasks[t].result = "image" =>
                   HotelImage(i) = DataUri(InlineData("hotel", i))
             /\ imageTasks[t].result # "image" => HotelImage(i) = EmptyString
     /\ pc = "done" => returned = quotationData

\* three hotels, image synthesis failed for the second one only
C10_Witness ==
  /\ pc = "done"
  /\ Len(returned.value.hotels) = 3
  /\ \A t \in HotelTasks :
        imageTasks[t].result = (IF imageTasks[t].idx = 2 THEN "failed"
                                ELSE "image")
  /\ returned.value.hotels[1].image # EmptyString
  /\ returned.value.hotels[2].image = EmptyString
  /\ returned.value.hotels[3].image # EmptyString

\* the image field of slot (kind, idx) of Quotation q
SlotImage(q, kind, idx) ==
  CASE kind = "hero" -> q.heroImage
    [] kind = "hotel" -> q.hotels[idx].image
    [] kind = "restaurant" -> q.restaurants[idx].image
    [] kind = "day" -> q.itinerary[idx].image

\* the slots of Quotation q: the hero, each hotel, restaurant and day
Slots(q) ==
  {<<"hero", 0>>} \cup {<<"hotel", i>> : i \in 1..Len(q.hotels)}
     \cup {<<"restaurant", i>> : i \in 1..Len(q.restaurants)}
     \cup {<<"day", i>> : i \in 1..Len(q.itinerary)}

TasksOf(sl) ==
  {t \in 1..Len(imageTasks) :
      imageTasks[t].kind = sl[1] /\ imageTasks[t].idx = sl[2]}

\* C11 (no cross-contamination): at every moment of the enrichment, and in
\* the returned Quotation, every slot (hero, hotel i, restaurant j, day k)
\* holds the image of its own subtask if that subtask produced one, and
\* otherwise the value the synchronous part of the enrichment left in it;
\* it never holds the image produced for another slot.
C11_NoCrossContamination ==
  (pc \in {"enrich", "done"}) =>
     \A sl \in Slots(quotationData.value) :
        LET img == SlotImage(quotationData.value, sl[1], sl[2])
            own == DataUri(InlineData(sl[1], sl[2]))
            left == SlotImage(ClearedQuotation(parsed.value), sl[1], sl[2])
        IN /\ (\E t \in TasksOf(sl) : imageTasks[t].result = "image")
                 => img = own
           /\ (\A t \in TasksOf(sl) : imageTasks[t].result # "image")
                 => img = left
           /\ \A other \in Slots(quotationData.value) \ {sl} :
                 img # DataUri(InlineData(other[1], other[2]))

\* the hero, a hotel, a restaurant and a day each got the image of their
\* own subtask
C11_Witness ==
  /\ pc = "done"
  /\ Len(imageTasks) = 4
  /\ \A t \in 1..Len(imageTasks) : imageTasks[t].result = "image"
  /\ {imageTasks[t].kind : t \in 1..Len(imageTasks)}
        = {"hero", "hotel", "restaurant", "day"}
  /\ \A sl \in Slots(returned.value) :
        SlotImage(returned.value, sl[1], sl[2]) = DataUri(InlineData(sl[1], sl[2]))

\* the hotel, restaurant and itinerary-day slots of Quotation q
ListSlots(q) == Slots(q) \ {<<"hero", 0>>}

\* no subtask of slot sl has produced an image
NoImageYet(sl) == \A t \in TasksOf(sl) : imageTasks[t].result # "image"

C13_ImageFieldLifecycle ==
  (pc = "done") =>
     \A sl \in ListSlots(returned.value) :
        LET img == SlotImage(returned.value, sl[1], sl[2])
        IN \/ img = EmptyString
           \/ isDirectImage(img)

\* C14 (always-fresh hero): in every request that reaches the enrichment
\* phase exactly one hero synthesis subtask is enqueued, whether the parsed
\* Quotation carries no hero image, a webpage URL or already a data URI.
C14_AlwaysFreshHero ==
  (pc \in {"enrich", "done"}) =>
     /\ Cardinality(TasksOf(<<"hero", 0>>)) = 1
     /\ imageTasks[1].kind = "hero"

\* the parsed Quotation already carries a data URI as hero image, and the
\* hero subtask has replaced it by a synthesized one
C14_Witness ==
  /\ pc = "done"
  /\ startsWith(parsed.value.heroImage, <<"data:">>)
  /\ imageTasks[1].kind = "hero"
  /\ imageTasks[1].result = "image"
  /\ returned.value.heroImage = DataUri(InlineData("hero", 0))

\* C15 as stated (hero is a data URI or empty): in the returned Quotation
\* the hero image is empty or a data URI; a hero value of the text model
\* that is not a data URI is not left there when the hero synthesis fails
\* or returns nothing.
C15_HeroDataUriOrEmpty ==
  (pc = "done") =>
     \/ returned.value.heroImage = EmptyString
     \/ startsWith(returned.value.heroImage, <<"data:">>)

\* the last text-completion call returned text that did not parse
ParseFailed == response = "text" /\ parsed.isNull

\* C19 (invalid output is terminal): when the text of the response does not
\* parse after cleaning and repair, the request has failed with the
\* invalid-format error, the call that returned the text is the last one
\* issued, and no image-synthesis call has been issued.
C19_ParseFailureInv ==
  ParseFailed =>
     /\ pc = "failed"
     /\ thrown = InvalidFormatError
     /\ LastCall.state = "returned"
     /\ PendingCalls = {}
     /\ imageTasks = <<>>
     /\ returned.isNull

\* after a parse failure no text-completion call and no image call follows
C19_ParseFailureStep ==
  ParseFailed =>
     /\ textCalls' = textCalls
     /\ imageTasks' = imageTasks
     /\ sleeps' = sleeps
     /\ thrown' = thrown
     /\ pc' = pc

C19_InvalidOutputTerminal ==
  []C19_ParseFailureInv /\ [][C19_ParseFailureStep]_vars

\* the second attempt returned text that does not parse, budget being left,
\* and the App has shown the error
C19_Witness ==
  /\ ParseFailed
  /\ NumCalls = 2
  /\ thrown = InvalidFormatError
  /\ driver = "app"
  /\ ~loading
  /\ error = Some(InvalidFormatError.message)

\* the text is a brace-terminated text that does not end with a bracket,
\* optional white space and the brace
LacksClosingBracket(s) ==
  /\ s # <<>>
  /\ s[Len(s)] = "}"
  /\ ~\E k \in 1..(Len(s) - 1) :
         /\ s[k] = "]"
         /\ \A j \in (k + 1)..(Len(s) - 1) : s[j] \in Whitespace

\* the tips of the final array of the complete object with properties b
OriginalTips(b) == ParseFrom(StripWs(<<"{">> \o b \o <<"}">>), "start", <<>>).tips

\* when the cleaned text ends with the brace and not with bracket, white
\* space, brace, the repair replaces the final brace by bracket, space, brace
C16_RepairStep ==
  (pc = "stripped" /\ pc' = "repaired" /\ LacksClosingBracket(cleanText)) =>
     cleanText' = SubSeq(cleanText, 1, Len(cleanText) - 1) \o <<"]", " ", "}">>

\* the repaired text of an object whose final array lost its closing bracket
\* parses, and travelTips is the original array
C16_ParseStep ==
  \A b \in ArrayLastBodies, c \in Closings :
     LET truncated == <<"{">> \o SubSeq(b, 1, Len(b) - 1) \o c
     IN (/\ pc = "repaired"
         /\ cleanText = SubSeq(truncated, 1, Len(truncated) - 1)
                            \o <<"]", " ", "}">>)
        => /\ pc' = "parsed"
           /\ ~parsed'.isNull
           /\ parsed'.value.travelTips = OriginalTips(b)

\* C16 (truncation repair): a cleaned text that ends with a closing brace
\* not preceded by a closing bracket gets its final brace replaced by
\* bracket, space, brace before parsing; when the text is an object whose
\* final travelTips array lost its closing bracket, the repaired text
\* parses to an object whose travelTips is the original array.
C16_TruncationRepair == [][C16_RepairStep /\ C16_ParseStep]_vars

\* a response whose array of two tips lost its bracket was repaired and
\* parsed
C16_Witness ==
  /\ pc = "parsed"
  /\ responseText =
       <<"{", "BODY", ",", "[", "\"Pack light\"", ",", "\"Carry cash\"", "}">>
  /\ cleanText =
       <<"{", "BODY", ",", "[", "\"Pack light\"", ",", "\"Carry cash\"", "]",
         " ", "}">>
  /\ parsed.value.travelTips = <<"\"Pack light\"", "\"Carry cash\"">>

\* C17 as stated (repair idempotence): for a syntactically valid JSON text
\* of a Quotation, whatever its last property, fence stripping and repair
\* yield the text unchanged, and the text parses.
C17_RepairIdempotent ==
  (trim(responseText) \in ValidTexts) =>
     /\ pc \in {"stripped", "repaired", "parsed", "failed"}
           => cleanText = trim(responseText)
     /\ pc # "failed"

\* C18 as stated (fence stripping): when the trimmed text is wrapped in a
\* fence, optionally tagged json, the normalizer continues with the trimmed
\* interior of the fence; otherwise it continues with the trimmed text as
\* it is, also when the text holds fence marks inside it.
C18_FenceStripping ==
  (pc = "stripped") =>
     LET t == trim(responseText)
         wrapped == /\ Len(t) >= 2
                    /\ t[1] \in FenceTokens
                    /\ t[Len(t)] = "FENCE"
     IN cleanText = (IF wrapped THEN trim(SubSeq(t, 2, Len(t) - 1)) ELSE t)

\* the file-name extensions of a raster image, in the letter cases the
\* references come in
RasterExtensions == {".jpg", ".JPG", ".jpeg", ".png", ".Png", ".gif", ".webp"}

\* C20 (isDirectImage): the result is true exactly when the reference is
\* not empty and either starts with data: or starts with http and its part
\* before the first question mark ends, in any letter case, with .jpg,
\* .jpeg, .png, .gif or .webp; true for https://x.com/img.jpg, with and
\* without ?size=large, and for a data URI, false for a .html page and "".
C20_IsDirectImage ==
  (~isValid.isNull) =>
     LET n == Len(urlArg)
         qs == {i \in 1..n : urlArg[i] = "?"}
         m == IF qs = {} THEN n
              ELSE (CHOOSE i \in qs : \A j \in qs : i <= j) - 1
         extOk == m > 0 /\ urlArg[m] \in RasterExtensions
     IN /\ isValid.value
             = (n > 0 /\ (urlArg[1] = "data:" \/ (urlArg[1] = "http" /\ extOk)))
        /\ urlArg = JpgUrl => isValid.value
        /\ urlArg = JpgUrl \o <<"?", "size=large">> => isValid.value
        /\ urlArg = ModelDataUri => isValid.value
        /\ urlArg = PageUrl => ~isValid.value
        /\ urlArg = EmptyString => ~isValid.value

\* an image URL with a query string was found directly usable
C20_Witness ==
  /\ ~isValid.isNull
  /\ urlArg = JpgUrl \o <<"?", "size=large">>
  /\ isValid.value

\* C25 (backoff schedule): no sleep precedes attempt 1; the sleep between
\* the failure of attempt k and the start of attempt k + 1 lasts k times
\* 1000 ms; no sleep is in progress or added once the request has ended,
\* whether after the last attempt or on a quota or non-transient exit.
C25_BackoffSchedule ==
  /\ Len(sleeps) <= 2
  /\ \A k \in 1..Len(sleeps) : sleeps[k] = k * 1000
  /\ NumCalls <= 1 => sleeps = <<>>
  /\ NumCalls > 1 => Len(sleeps) = NumCalls - 1
  /\ pc = "sleep" => sleeping = NumCalls * 1000 /\ Len(sleeps) = NumCalls - 1
  /\ pc # "sleep" => sleeping = 0
  /\ pc = "failed" /\ NumCalls > 0 => Len(sleeps) = NumCalls - 1

\* the third attempt is in flight after sleeps of 1000 ms and 2000 ms
C25_Witness ==
  /\ pc = "textCall"
  /\ NumCalls = 3
  /\ sleeps = <<1000, 2000>>

\* C26 (settle-all join): the request returns only when every enqueued
\* image subtask has settled, by an image, an empty result or a failure;
\* while any subtask is pending it has not returned and cannot return, and
\* after the return no image field and no subtask changes any more.
C26_JoinInv ==
  /\ pc = "done" =>
        /\ \A t \in 1..Len(imageTasks) :
              /\ imageTasks[t].state = "fulfilled"
              /\ imageTasks[t].result \in {"image", "empty", "failed"}
        /\ returned = quotationData
  /\ (pc = "enrich" /\ \E t \in 1..Len(imageTasks) :
                          imageTasks[t].state = "pending")
        => returned.isNull /\ ~ENABLED AllSettled

C26_JoinStep ==
  (pc = "done") =>
     /\ quotationData' = quotationData
     /\ imageTasks' = imageTasks
     /\ returned' = returned

C26_SettleAllJoin == []C26_JoinInv /\ [][C26_JoinStep]_vars

\* the first subtask has failed and another has returned an image while a
\* third is still pending: the request has not returned
C26_Witness ==
  /\ pc = "enrich"
  /\ returned.isNull
  /\ Len(imageTasks) >= 3
  /\ imageTasks[1].result = "failed"
  /\ imageTasks[2].result = "image"
  /\ imageTasks[3].state = "pending"

\* C27 (phase ordering): an image-synthesis call exists only when the last
\* text-completion call has returned text that parsed into a Quotation; in
\* every request that has failed, by a quota, transient, non-transient,
\* no-text or invalid-output failure, no image call was issued.
C27_PhaseOrdering ==
  /\ imageTasks # <<>> =>
        /\ ~parsed.isNull
        /\ response = "text"
        /\ NumCalls > 0 /\ LastCall.state = "returned"
        /\ pc \in {"enrich", "done"}
  /\ pc \in {"idle", "textCall", "sleep", "failed"} => imageTasks = <<>>

\* the five ways the text phase fails
FailureKinds ==
  {QuotaExceededError, E500, E400, GenericFailureError, InvalidFormatError}

\* a request failed after its third attempt returned text that does not
\* parse, and no image call was issued
C27_Witness ==
  /\ pc = "failed"
  /\ NumCalls = 3
  /\ thrown = InvalidFormatError
  /\ thrown \in FailureKinds
  /\ imageTasks = <<>>

\* C28 (enrichment frame): during and after the enrichment the Quotation
\* differs from the parsed one at most in heroImage and in the image fields
\* of hotels, restaurants and itinerary days: destination, flights and
\* travelTips are equal, and the hotels, restaurants and itinerary lists
\* have the same items in the same order.
C28_EnrichmentFrame ==
  (pc \in {"enrich", "done"}) =>
     LET q == quotationData.value
         p == parsed.value
         sameItems(a, b) ==
           /\ Len(a) = Len(b)
           /\ \A i \in 1..Len(a) : a[i].name = b[i].name
     IN /\ DOMAIN q = DOMAIN p
        /\ \A f \in DOMAIN p \ {"heroImage", "hotels", "restaurants", "itinerary"} :
              q[f] = p[f]
        /\ sameItems(q.hotels, p.hotels)
        /\ sameItems(q.restaurants, p.restaurants)
        /\ sameItems(q.itinerary, p.itinerary)
        /\ pc = "done" => returned.value = q

\* three hotels came back in their order, each with a new image
C28_Witness ==
  /\ pc = "done"
  /\ Names(returned.value.hotels) = <<"1", "2", "3">>
  /\ Names(parsed.value.hotels) = <<"1", "2", "3">>
  /\ \A i \in 1..3 : returned.value.hotels[i].image # parsed.value.hotels[i].image
  /\ returned.value.travelTips = parsed.value.travelTips

\* C30 (a response without text ends the loop): when a text-completion call
\* returns a response that has no text, no further attempt follows and the
\* request has failed, with the error of the most recent failed attempt
\* when an attempt failed before, and with the generic error otherwise.
C30_NoTextInv ==
  (response = "empty") =>
     /\ pc = "failed"
     /\ LastCall.state = "returned"
     /\ FailedBefore(NumCalls)
     /\ imageTasks = <<>>
     /\ NumCalls = 1 => (lastError = NoError /\ thrown = GenericFailureError)
     /\ NumCalls > 1 => (lastError # NoError /\ thrown = lastError)

C30_NoTextStep ==
  (response = "empty") =>
     /\ textCalls' = textCalls
     /\ sleeps' = sleeps
     /\ thrown' = thrown

C30_NoTextEndsLoop == []C30_NoTextInv /\ [][C30_NoTextStep]_vars

\* the first attempt failed with an internal error and the second returned
\* a response without text: the request failed with the first error
C30_Witness ==
  /\ response = "empty"
  /\ NumCalls = 2
  /\ textCalls[1].state = "failed"
  /\ lastError = E500
  /\ thrown = E500
  /\ pc = "failed"

\* C21 (trichotomy): for every Quotation it is given, once loading is over,
\* the renderer selects exactly one of the three templates, by the
\* emptiness of flights, hotels and itinerary alone (an absent list counts
\* as empty): flight-only iff only flights is non-empty, hotel-only iff only
\* hotels is non-empty, package in every other case.
C21_Trichotomy ==
  (~template.isNull /\ ~loading /\ ~quotation.isNull) =>
     LET d == quotation.value
         nonEmpty(l) == l \notin {Null(<<>>), Some(<<>>)}
         f == nonEmpty(d.flights)
         h == nonEmpty(d.hotels)
         i == nonEmpty(d.itinerary)
     IN /\ template.value \in {"flightOnly", "hotelOnly", "package"}
        /\ template.value = "flightOnly" <=> (f /\ ~h /\ ~i)
        /\ template.value = "hotelOnly" <=> (h /\ ~f /\ ~i)
        /\ template.value = "package" <=> ~((f /\ ~h /\ ~i) \/ (h /\ ~f /\ ~i))

\* flights and an itinerary without hotels: the package template
C21_Witness ==
  /\ ~template.isNull
  /\ ~loading
  /\ ~quotation.isNull
  /\ hasItems(quotation.value.flights)
  /\ quotation.value.hotels = Some(<<>>)
  /\ hasItems(quotation.value.itinerary)
  /\ template.value = "package"

\* the positions of the parts of l that carry inline image data
ImageParts(l) == {i \in 1..Len(l) : l[i].inline /\ l[i].data # <<>>}

\* C22 (image helper): when the backend response holds an inline image
\* part, the helper returns the data URI built from the data of the first
\* such part; when the response holds no image part (no parts, text parts
\* only, no candidates) it returns the empty string; it never raises.
C22_ImageHelper ==
  /\ thrown = NoError
  /\ pc # "failed"
  /\ (pc = "done" /\ apiKey /\ imageCall.kind = "resolve") =>
        LET l == imageCall.parts
        IN /\ ImageParts(l) = {} => imageUrl = Some(EmptyString)
           /\ \A i \in ImageParts(l) :
                 (\A j \in ImageParts(l) : i <= j)
                    => imageUrl = Some(<<"data:", "image/png;base64,">> \o l[i].data)
  /\ (pc = "done" /\ apiKey /\ imageCall.kind = "noCandidates")
        => imageUrl = Some(EmptyString)
  /\ pc # "done" => imageUrl.isNull

\* a response with a text part and two different images: the first image
C22_Witness ==
  /\ pc = "done"
  /\ apiKey
  /\ imageCall = [kind |-> "resolve",
                  parts |-> <<TextPart, InlinePart(<<"B">>), InlinePart(<<"A">>)>>]
  /\ imageUrl = Some(<<"data:", "image/png;base64,", "B">>)

\* the words that mark a quota error, in the letter cases errors come in
QuotaWords == {"429", "quota", "Quota", "resource_exhausted", "RESOURCE_EXHAUSTED"}

\* C29 (error classification): what the catch block does with an error is a
\* function of the error alone, quota taking precedence: quota when the
\* status is 429 or the text of the error holds 429, resource_exhausted or
\* quota in any letter case; otherwise internal (retried) when the status,
\* or the code of an error without status, is 500, 503 or INTERNAL, or the
\* message holds "Internal error"; otherwise other (rethrown). An error
\* with both indicators is classified quota and so never retried.
C29_Classification ==
  (~classified.isNull) =>
     LET e == caught
         text == <<e.name>> \o e.message
         quota == \/ e.status = 429
                  \/ \E i \in 1..Len(text) : text[i] \in QuotaWords
         internal ==
           \/ e.status \in {500, 503}
           \/ e.status = 0 /\ e.code = "INTERNAL"
           \/ \E i \in 1..(Len(e.message) - 2) :
                 /\ e.message[i] = "Internal"
                 /\ e.message[i + 1] = " "
                 /\ e.message[i + 2] = "error"
     IN /\ classified.value
             = (IF quota THEN "quota" ELSE IF internal THEN "continue" ELSE "throw")
        /\ (quota /\ internal) => classified.value # "continue"

\* a status 500 error whose message speaks of quota is classified quota
C29_Witness ==
  /\ ~classified.isNull
  /\ caught = E500Quota
  /\ isInternalError(caught)
  /\ classified.value = "quota"

\* the images invocation r may hold: what the model wrote and the code keeps
\* (the hero reference), nothing, or an image drawn for invocation r
OwnImages(r) ==
  {EmptyString, PageUrl}
    \cup {DataUri(FrameImage(r, sl[1], sl[2])[1].data) :
             sl \in {<<"hero", 0>>, <<"hotel", 1>>}}

\* the invocations that are over, by a result or by an error
Finished == {r \in 1..Len(frames) : frames[r].pc \in {"done", "failed"}}

C23_IndependentInv ==
  \A r \in 1..Len(frames) :
     LET f == frames[r]
     IN /\ f.textCalls[1].useTools
        /\ Len(f.textCalls) <= maxRetries
        /\ f.attempt <= Len(f.textCalls)
        /\ (f.pc = "textCall") => (f.attempt = Len(f.textCalls) - 1)
        \* a transient failure ends the invocation on its third call only
        /\ (f.pc = "failed" /\ Classify(f.lastError) = "continue"
               /\ f.textCalls[Len(f.textCalls)].state = "failed")
             => (Len(f.textCalls) = maxRetries)
        /\ (~f.quotationData.isNull)
             => \A sl \in Slots(f.quotationData.value) :
                   SlotImage(f.quotationData.value, sl[1], sl[2]) \in OwnImages(r)

C23_IndependentStep ==
  /\ \A r \in 1..Len(frames), p \in 1..Len(frames) :
        (frames'[r] # frames[r] /\ frames'[p] # frames[p]) => (r = p)
  /\ (Len(frames') # Len(frames)) =>
        /\ Len(frames') = Len(frames) + 1
        /\ \A r \in 1..Len(frames) : frames'[r] = frames[r]
        /\ LET f == frames'[Len(frames')]
           IN /\ f.attempt = 0
              /\ f.lastError = NoError
              /\ f.textCalls = <<[useTools |-> TRUE, state |-> "pending"]>>
              /\ f.quotationData.isNull
              /\ f.imageTasks = <<>>
              /\ f.thrown = NoError

\* C23 (requests are independent): a generateQuotation invocation starts at
\* attempt 1 with grounding enabled, no last error, no image task and no
\* Quotation, with a budget of 3 attempts, whatever the earlier invocations
\* did and whether they are over or still running; a step of one invocation
\* changes the locals of no other, and the Quotation of an invocation holds
\* images drawn for that invocation only.
C23_RequestsIndependent ==
  []C23_IndependentInv /\ [][C23_IndependentStep]_vars

\* a second invocation, started after the first used up its attempts, runs
\* at its first grounded attempt while the first is over; and two overlapping
\* invocations both hold an image of their own
C23_Witness ==
  /\ Len(frames) = 2
  /\ frames[1].pc = "failed"
  /\ frames[1].attempt = maxRetries
  /\ frames[1].lastError = E500
  /\ frames[2].pc = "enrich"
  /\ Len(frames[2].textCalls) = 1
  /\ frames[2].textCalls[1].useTools
  /\ frames[2].quotationData.value.hotels[1].image
        = DataUri(FrameImage(2, "hotel", 1)[1].data)

\* two invocations overlap in their enrichment, each with its own image
C23_WitnessOverlap ==
  /\ Len(frames) = 2
  /\ \A r \in 1..2 :
        /\ frames[r].pc = "enrich"
        /\ frames[r].quotationData.value.heroImage
              = DataUri(FrameImage(r, "hero", 0)[1].data)

\* the generateQuotation call started by handleGenerate has completed and
\* handleGenerate has not resumed yet
CallCompleted == loading /\ pc \in {"done", "failed"}

\* the step in which handleGenerate resumes after the call
Resumes == CallCompleted /\ <<error, loading, quotation>>' # <<error, loading, quotation>>

\* the error state is the message of the propagated error, whatever it is
C24_ErrorVerbatimStep ==
  (Resumes /\ pc = "failed") => (error' = Some(thrown.message))

\* C24 as stated: on failure the error state equals the propagated error
\* message verbatim.
C24_ErrorVerbatim == [][C24_ErrorVerbatimStep]_vars

C24_SettleInv ==
  /\ CallCompleted => ENABLED HandleGenerateSettles
  /\ (driver = "app" /\ ~loading /\ pc \in {"done", "failed"})
        => ENABLED HandleGenerateAgain
  /\ loading => (pc # "idle")

C24_SettleStep ==
  Resumes =>
    /\ loading' = FALSE
    /\ (pc = "done") => (quotation' = returned /\ error' = error)
    /\ (pc = "failed") =>
         /\ quotation' = quotation
         /\ error' = Some(IF thrown.message # EmptyString THEN thrown.message
                          ELSE UiFallbackMessage)

\* C24 (UI after a call): whenever a generateQuotation call started by
\* handleGenerate completes, by a result or by any error, handleGenerate
\* resumes and sets loading to false in the same step, after which Generate
\* can be clicked again at once; on failure the error state is the message
\* of the propagated error verbatim when the error has one, and the text
\* "Failed to generate quotation. Please try again." when it has none.
C24_LoadingReturns ==
  /\ []C24_SettleInv
  /\ [][C24_SettleStep]_vars
  /\ (CallCompleted ~> ~loading)

\* a second request failed on a rejection without message after a first one
\* had delivered a quotation: the fallback text is shown, loading is false
\* and Generate can be clicked again
C24_Witness ==
  /\ driver = "app"
  /\ ~quotation.isNull
  /\ pc = "failed"
  /\ thrown = EEmptyMessage
  /\ ~loading
  /\ error = Some(UiFallbackMessage)
  /\ ENABLED HandleGenerateAgain

\* the image calls issued so far: one per subtask, pending or settled
ImageCallsIssued ==
  {t \in 1..Len(imageTasks) : imageTasks[t].state \in {"pending", "fulfilled"}}

C31_OneCallInv ==
  /\ (pc \in {"enrich", "done"}) =>
        LET q == quotationData.value
        IN /\ \A sl \in Slots(q) : Cardinality(TasksOf(sl)) = 1
           /\ \A t \in 1..Len(imageTasks) :
                 <<imageTasks[t].kind, imageTasks[t].idx>> \in Slots(q)
           /\ Cardinality(ImageCallsIssued) = Len(imageTasks)
           /\ Len(imageTasks)
                 = 1 + Len(q.hotels) + Len(q.restaurants) + Len(q.itinerary)
  /\ (pc \notin {"enrich", "done"}) => (imageTasks = <<>>)

C31_OneCallStep ==
  /\ (imageTasks = <<>> /\ imageTasks' # <<>>) =>
        \A t \in 1..Len(imageTasks') : imageTasks'[t].state = "pending"
  /\ (imageTasks # <<>>) =>
        /\ Len(imageTasks') = Len(imageTasks)
        /\ \A t \in 1..Len(imageTasks) :
              /\ imageTasks'[t].kind = imageTasks[t].kind
              /\ imageTasks'[t].idx = imageTasks[t].idx
              \* a settled subtask is never started again
              /\ (imageTasks[t].state # "pending") => (imageTasks'[t] = imageTasks[t])

\* C31 (one synthesis call per slot): within a request every slot (hero,
\* hotel i, restaurant j, day k) has exactly one subtask, hence at most one
\* image call; all subtasks are launched together, pending, before any has
\* settled or the join is awaited; a settled subtask is never launched again;
\* the number of image calls is the number of slots,
\* 1 + #hotels + #restaurants + #days.
C31_OneCallPerSlot == []C31_OneCallInv /\ [][C31_OneCallStep]_vars

\* a request over with four slots: four image calls, one of which failed
C31_Witness ==
  /\ pc = "done"
  /\ Len(imageTasks) = 4
  /\ Len(quotationData.value.hotels) = 2
  /\ Len(quotationData.value.itinerary) = 1
  /\ \E t \in 1..4 : imageTasks[t].result = "failed"
  /\ \E t \in 1..4 : imageTasks[t].result = "image"

\* the request is over: a Quotation was returned or an error was raised
Success == pc = "done" /\ ~returned.isNull /\ thrown = NoError
Fail == pc = "failed" /\ thrown # NoError /\ returned.isNull

C32_Budget ==
  /\ NumCalls <= 3
  /\ Len(sleeps) <= 2
  /\ Len(imageTasks) <= FairTasks
  /\ (pc \in {"done", "failed"}) => (Success \/ Fail)

\* a subtask has failed or come back without image while the join is awaited
SubtaskWithoutImage ==
  /\ pc = "enrich"
  /\ \E t \in 1..Len(imageTasks) : imageTasks[t].result \in {"failed", "empty"}

\* C32 (termination): when every backend call eventually returns or fails,
\* a generateQuotation request that was started eventually reaches Success
\* or Fail, after at most 3 text-completion calls, at most 2 backoff sleeps
\* and one image call per slot; a request with a failed or empty subtask
\* still reaches Success.
C32_Termination ==
  /\ []C32_Budget
  /\ ((pc # "idle") ~> (Success \/ Fail))
  /\ (SubtaskWithoutImage ~> Success)

\* a request that used its three calls and two sleeps and succeeded although
\* a subtask failed and another came back without image
C32_Witness ==
  /\ Success
  /\ NumCalls = 3
  /\ Len(sleeps) = 2
  /\ Len(imageTasks) = FairTasks
  /\ \E t \in 1..FairTasks : imageTasks[t].result = "failed"
  /\ \E t \in 1..FairTasks : imageTasks[t].result = "empty"

\* the subtasks that settle in the step, with or without an image
Settling ==
  {t \in 1..Len(imageTasks) :
      /\ pc = "enrich"
      /\ Len(imageTasks') = Len(imageTasks)
      /\ imageTasks[t].state = "pending"
      /\ imageTasks'[t].state # "pending"}

C33_WrittenInv ==
  (pc = "done") =>
     \A t \in 1..Len(imageTasks) :
        (imageTasks[t].result = "image") =>
           SlotImage(returned.value, imageTasks[t].kind, imageTasks[t].idx)
             = DataUri(InlineData(imageTasks[t].kind, imageTasks[t].idx))

C33_WrittenStep ==
  /\ \A t \in Settling :
        LET kind == imageTasks[t].kind
            idx == imageTasks[t].idx
        IN IF imageTasks'[t].result = "image"
             THEN /\ SlotImage(quotationData'.value, kind, idx)
                       = DataUri(InlineData(kind, idx))
                  /\ \A sl \in Slots(quotationData.value) \ {<<kind, idx>>} :
                        SlotImage(quotationData'.value, sl[1], sl[2])
                          = SlotImage(quotationData.value, sl[1], sl[2])
             ELSE quotationData' = quotationData
  \* a written image stays: nothing clears or replaces it afterwards
  /\ (pc \in {"enrich", "done"}) =>
        \A t \in 1..Len(imageTasks) :
           (imageTasks[t].result = "image") =>
              SlotImage(quotationData'.value, imageTasks[t].kind, imageTasks[t].idx)
                = SlotImage(quotationData.value, imageTasks[t].kind, imageTasks[t].idx)

\* C33 (a synthesized image is always written): when the subtask of a slot
\* returns a non-empty data URI it is written into that slot and no other,
\* it is never overwritten or cleared later, and the returned Quotation holds
\* exactly that data URI in the slot; a subtask that returns the empty
\* string or fails changes nothing in the Quotation, so a value already in
\* the field stays.
C33_ImageAlwaysWritten == []C33_WrittenInv /\ [][C33_WrittenStep]_vars

\* the hotel got its image, the hero subtask came back empty and the hero
\* reference of the text response is still there
C33_Witness ==
  /\ pc = "done"
  /\ returned.value.heroImage = PageUrl
  /\ \E t \in TasksOf(<<"hero", 0>>) : imageTasks[t].result = "empty"
  /\ Len(returned.value.hotels) >= 1
  /\ \E t \in TasksOf(<<"hotel", 1>>) : imageTasks[t].result = "image"
  /\ returned.value.hotels[1].image = DataUri(InlineData("hotel", 1))

\* the step in which handleGenerate starts a generateQuotation call
Submits == ~loading /\ loading'

C34_FrameInv == loading => error.isNull

C34_FrameStep ==
  /\ Submits => (error'.isNull /\ quotation' = quotation)
  /\ (Resumes /\ pc = "failed") =>
        /\ quotation' = quotation
        /\ ~error'.isNull
        /\ ~loading'
        /\ <<inputText, files>>' = <<inputText, files>>
  /\ (Resumes /\ pc = "done") =>
        /\ quotation' = returned
        /\ ~quotation'.isNull
        /\ error' = error
        /\ error'.isNull
        /\ ~loading'
        /\ <<inputText, files>>' = <<inputText, files>>

InFlight == {r \in 1..Len(frames) : frames[r].pc # "resumed"}

C35_SingleInv ==
  /\ Cardinality(InFlight) <= 1
  /\ loading <=> (InFlight # {})
  /\ loading => ~ENABLED ClickGenerate

C35_SingleStep ==
  (Len(frames') > Len(frames)) =>
     /\ \A r \in 1..Len(frames) : frames[r].pc = "resumed"
     /\ ~loading
     /\ loading'

\* C35 (one request in flight): loading is true exactly while a
\* handleGenerate invocation awaits its generateQuotation call, the Generate
\* button is disabled while loading is true, and a click starts a call only
\* when every earlier invocation has resumed after its own call: at most
\* one call started from the UI is in flight at any time.
C35_SingleRequestInFlight == []C35_SingleInv /\ [][C35_SingleStep]_vars

\* a second request is in its enrichment after the first one has failed and
\* handleGenerate has resumed
C35_Witness ==
  /\ Len(frames) = 2
  /\ frames[1].pc = "resumed"
  /\ frames[1].thrown = E400
  /\ frames[2].pc = "enrich"
  /\ loading
  /\ InFlight = {2}

\* the positions of files that hold upload u
PositionsOf(u) == {k \in 1..Len(files) : files[k] = u}

\* every reader of selection b has completed
BatchRead(b) == frames[b].reading = {}

C36_AtomicInv ==
  \A b \in 1..Len(frames) :
     \A i \in 1..Len(frames[b].fileList) :
        Cardinality(PositionsOf(frames[b].fileList[i]))
          = (IF BatchRead(b) THEN 1 ELSE 0)

C36_AtomicStep ==
  (files' # files) =>
     \E b \in 1..Len(frames) :
        /\ ~BatchRead(b)
        /\ Cardinality(frames[b].reading) = 1
        /\ frames'[b].reading = {}
        /\ Len(files') = Len(files) + Len(frames[b].fileList)
        /\ \A k \in 1..Len(files) : files'[k] = files[k]
        /\ {files'[k] : k \in (Len(files) + 1)..Len(files')}
              = {frames[b].fileList[i] : i \in 1..Len(frames[b].fileList)}

\* C36 (atomic batch upload): for one selection of N files, whose readers
\* complete in any order, files is extended exactly once, by all N files,
\* in the step in which the last reader completes; before that step none of
\* the N files is in files, and the files that were there are kept in front.
C36_BatchAtomic == []C36_AtomicInv /\ [][C36_AtomicStep]_vars

\* two selections of two files were read with interleaved readers, the
\* second completed first, after an earlier attachment
C36_Witness ==
  /\ Len(frames) = 2
  /\ BatchRead(1) /\ BatchRead(2)
  /\ Len(files) = 5
  /\ files[1] = EarlierUpload
  /\ files[2] = FileUploadOf(2, 2)
  /\ files[3] = FileUploadOf(2, 1)
  /\ files[4] = FileUploadOf(1, 2)
  /\ files[5] = FileUploadOf(1, 1)

\* a backend call, for text or for an image, has been issued
BackendCalled ==
  \/ textCalls # <<>>
  \/ imageTasks # <<>>
  \/ pc \in {"textCall", "sleep", "enrich", "imageCall"}

\* generateQuotation was called with neither text nor files
CalledWithoutInput ==
  /\ pc = "failed"
  /\ args = [textInput |-> EmptyString, files |-> <<>>]

\* C37 (missing credential): without an API key generateQuotation fails
\* with "API Key is missing" whatever its inputs, also when they are empty
\* (with a key, empty inputs fail with the precondition error), and
\* generateTravelImage returns the empty string; neither issues a backend
\* call.
C37_MissingCredential ==
  /\ (~apiKey) =>
        /\ ~BackendCalled
        /\ pc \in {"idle", "failed", "done"}
        /\ (pc = "failed") => (thrown = ApiKeyMissingError /\ returned.isNull)
        /\ (pc = "done") => (imageUrl = Some(EmptyString) /\ thrown = NoError)
  /\ (apiKey /\ CalledWithoutInput) => (thrown = PreconditionError)
  /\ (thrown = ApiKeyMissingError) => ~apiKey

\* called without key and without input: the missing key is reported
C37_Witness ==
  /\ ~apiKey
  /\ CalledWithoutInput
  /\ thrown = ApiKeyMissingError
  /\ textCalls = <<>>

\* the image helper called without key has returned the empty string
C37_WitnessImage ==
  /\ ~apiKey
  /\ pc = "done"
  /\ imageUrl = Some(EmptyString)
  /\ imageCall.kind = "resolve"

====
